---------------------------- MODULE Spec2Model ----------------------------
(***************************************************************************)
(* A model of the playferrous session and game-process orchestration       *)
(* fabric: the game subprocess driver (process-launcher), the transaction  *)
(* envelope, the proposal manager and its actors, and the connection       *)
(* registry and connection actors (server).                                *)
(*                                                                         *)
(* The subsystems share no state, so each has its own specification over   *)
(* its own variables; the other variables stay at their initial values.    *)
(*   SpecDriver    GameInstanceProcess and the subprocess at its pipes     *)
(*   SpecTx        Transaction and its post-commit hooks                   *)
(*   SpecProposal  ProposalManager, its ProposalActors and the endpoints   *)
(*                 the connections hold                                    *)
(*   SpecRegistry  ConnectionManager: open, broadcast, gc and the Drop of  *)
(*                 the ConnectionActors                                    *)
(*   SpecConn      one ConnectionActor between its presentation and the    *)
(*                 session actors it enters                                *)
(***************************************************************************)
EXTENDS Integers, Sequences, FiniteSets, TLC

(***************************************************************************)
(* Bounds of the model.                                                    *)
(***************************************************************************)
\* operations the owner of a driver performs on it
MaxOps == 2
\* response lines buffered in the subprocess's output pipe
MaxPipe == 1
\* transactions begun
MaxTx == 2
\* hooks registered on one transaction
MaxHooks == 2
\* message rows inserted over all transactions
MaxMsgs == 2
\* ProposalActors spawned for the proposal
MaxGen == 2
\* enter_session calls the connections make, in all
MaxCalls == 2
\* terminal lines the connections send to the session, in all
MaxLines == 4
\* connections opened at the registry
MaxConns == 2
\* intents the presentation sends to the ConnectionActor
MaxReqs == 3
\* messages other members of a session cause, sent to the connection
MaxEvents == 3
\* sessions the ConnectionActor enters
MaxEnters == 2
\* intents the presentation sends where a session's inbox is filled
MaxCmds == 6
\* messages other members cause where a connection's inbox is filled
MaxCasts == 4
\* NewMessage notifications in the ConnectionActor's system inbox
MaxNotify == 1
\* lines written to a game process's stdin
MaxGameReqs == 3
\* lines typed at a terminal
MaxTyped == 6
\* events a session sends to a terminal's connection
MaxBroadcasts == 5
\* Advance requests a rock-paper-scissors process handles
MaxAdvances == 2
\* the width, in bits, at which the i64 of a GameTick is modelled
TickBits == 3
\* the width, in bits, at which the i64 of a typed id is modelled
IdBits == 5
\* characters of a text that is parsed as an id
MaxIdLen == 3
\* the largest buffer a bichannel is made with
MaxBuf == 2
\* messages an endpoint of the bichannel sends
MaxBiMsgs == 3

VARIABLES
    \* ---- process-launcher: GameInstanceProcess ----
    child,      \* _child: "none", "alive" or "exited"
    stdin,      \* request lines written and flushed, not yet read by the child
    stdout,     \* response lines written by the child, not yet read
    drv,        \* the driver's position: [pc, req]
    op,         \* the operation in progress: request lines written, read_line
                \* calls made and response lines consumed by it
    last,       \* the operation that returned last
    nOps,       \* operations started so far
    \* ---- server/database/transaction.rs: Transaction ----
    tx,         \* [phase, idx]: where the transaction is, and the next hook
    hooks,      \* self.hooks, in registration order
    ran,        \* how many times each registered hook has run
    rows,       \* message rows inserted through the open transaction
    durable,    \* message rows of committed transactions
    notified,   \* NewMessage notifications sent, per message row
    nTx,        \* transactions begun so far
    nextMsg,    \* the next message id
    \* ---- server/proposal_manager.rs ----
    proposals,  \* ProposalManager::proposals at the proposal id: 0 when
                \* vacant, else the actor whose system sender the entry holds
    nextGen,    \* the next ProposalActor to spawn
    pa,         \* the ProposalActors: [st, system_q, connections, stack, pend,
                \* handled]
    chans,      \* the bichannels between connections and ProposalActors
    nextChan,   \* the next bichannel
    cl,         \* the connections' side: [pc, gen, ep]
    nLines,     \* terminal lines sent so far
    nCalls,     \* enter_session calls made so far
    bc,         \* the handler in progress: what it broadcasts, to whom, who
                \* was evicted and what each member was sent
    \* ---- server/connection_manager.rs: ConnectionManager ----
    connections, \* the DashMap: per user, whether the bucket is present and
                \* the ConnectionActors whose system senders it holds
    cas,        \* the ConnectionActors: [user, st, sysq, closed]
    nextConn,   \* the next ConnectionActor to spawn
    cast,       \* the broadcast in progress: [pc, senders, pending, res]
    \* ---- server/connection_manager.rs: ConnectionActor ----
    ca,         \* the actor: [pc, active, target, out, system_q]: its
                \* position, active_session (0: none), the manager it enters
                \* at, the message it is to send, its system inbox
    hd,         \* the handler in progress: [h, had, sent]: what it handles,
                \* whether a session was active, what it sent; or how run()
                \* ended
    pres,       \* the presentation: [open, reqs, inbox]: its endpoint, the
                \* intents it has sent, the messages it has not read
    sch,        \* the session bichannels of the connection
    sa,         \* the session actors: [st, q, member]
    nextSChan,  \* the next session bichannel
    nReqs,      \* intents sent so far
    nEvents,    \* messages of other members so far
    \* ---- types/src/process.rs: GameProcess::main ----
    gp,         \* the game process: [st, cause, anySnapshot, open]: whether
                \* main runs, why it failed, whether the game's Snapshot
                \* type accepts any JSON value, whether its stdin is open
    game,       \* main's `game`: "None" or "Some"
    gstdin,     \* the lines written to its stdin and not read yet
    requests,   \* the lines main has read, in order
    responses,  \* the lines main has written, in order
    \* ---- presentation/src/terminal.rs with its ConnectionActor ----
    term,       \* the terminal endpoint: [st, tq, tout]: whether it holds
                \* its channel, the lines it has sent, the lines sent to it
    tp,         \* where the TerminalPresentation is
    wire,       \* the presentation bichannel: [a2c, c2a]: the intents the
                \* ConnectionActor has not read, the messages the
                \* TerminalPresentation has not read
    cact,       \* the ConnectionActor: [pc, session, registered]
    psess,      \* the session entered: [member, q]: whether the
                \* ProposalActor holds the connection, the events the
                \* ConnectionActor has not read
    nTyped,     \* lines typed so far
    nBroadcasts, \* events of the session so far
    \* ---- games/rock-paper-scissors and server: GameActor ----
    rps,        \* the game of the process: [live, rules, state]
    saved,      \* the snapshot the host holds, as it is on the wire
    answer,     \* the request handled last and its response
    nAdv,       \* Advance requests handled so far
    now,        \* the wall-time tick
    gactor,     \* the GameActor of the game: [st, sent]: where it is and
                \* the requests it has sent to the subprocess
    \* ---- presentation: the typed ids ----
    shown,      \* the text at hand: [ty, n, text]: the id it was formatted
                \* from, if any
    parsed,     \* the result of parsing it: [ty, ok, n]
    \* ---- presentation: bichannel ----
    bi,         \* the pair: [made, cap, buf, s, r]: the messages each channel
                \* buffers, and whether each endpoint's halves live
    bsent,      \* per endpoint, the messages its sends were accepted with
    bgot        \* per endpoint, what its receives have yielded

drvVars == <<child, stdin, stdout, drv, op, last, nOps>>
txVars == <<tx, hooks, ran, rows, durable, notified, nTx, nextMsg>>
propVars == <<proposals, nextGen, pa, chans, nextChan, cl, nLines, nCalls, bc>>

regVars == <<connections, cas, nextConn, cast>>

connVars == <<ca, hd, pres, sch, sa, nextSChan, nReqs, nEvents>>

procVars == <<gp, game, gstdin, requests, responses>>

chainVars == <<term, tp, wire, cact, psess, nTyped, nBroadcasts>>

gameVars == <<rps, saved, answer, nAdv, now, gactor>>

idVars == <<shown, parsed>>

biVars == <<bi, bsent, bgot>>

vars ==
    <<drvVars, txVars, propVars, regVars, connVars, procVars, chainVars, gameVars, idVars,
      biVars>>

\* Each subsystem's actions leave the others' variables alone.
OnlyDriver ==
    UNCHANGED <<txVars, propVars, regVars, connVars, procVars, chainVars, gameVars, idVars,
                biVars>>
OnlyTx ==
    UNCHANGED <<drvVars, propVars, regVars, connVars, procVars, chainVars, gameVars, idVars,
                biVars>>
OnlyProposal ==
    UNCHANGED <<drvVars, txVars, regVars, connVars, procVars, chainVars, gameVars, idVars,
                biVars>>
OnlyRegistry ==
    UNCHANGED <<drvVars, txVars, propVars, connVars, procVars, chainVars, gameVars, idVars,
                biVars>>
OnlyConn ==
    UNCHANGED <<drvVars, txVars, propVars, regVars, procVars, chainVars, gameVars, idVars,
                biVars>>
OnlyProcess ==
    UNCHANGED <<drvVars, txVars, propVars, regVars, connVars, chainVars, gameVars, idVars,
                biVars>>
OnlyChain ==
    UNCHANGED <<drvVars, txVars, propVars, regVars, connVars, procVars, gameVars, idVars,
                biVars>>

OnlyGame ==
    UNCHANGED <<drvVars, txVars, propVars, regVars, connVars, procVars, chainVars, idVars,
                biVars>>
OnlyIds ==
    UNCHANGED <<drvVars, txVars, propVars, regVars, connVars, procVars, chainVars, gameVars,
                biVars>>
OnlyBichannel ==
    UNCHANGED <<drvVars, txVars, propVars, regVars, connVars, procVars, chainVars, gameVars, idVars>>

(***************************************************************************)
(* process-launcher/src/lib.rs                                             *)
(***************************************************************************)
\* The discriminators of GameProcessRequest; GameProcessResponse has the same.
RequestTags ==
    {"Initialize", "LoadSnapshot", "SaveSnapshot", "Advance", "State",
     "RenderConsoleUi", "InterpretConsoleCommand"}

\* The operations of the GameInstance trait and the request each one builds.
InstanceOps ==
    {"LoadSnapshot", "SaveSnapshot", "Advance", "State",
     "RenderConsoleUi", "InterpretConsoleCommand"}

\* The responses whose payload is an Option.
OptionTags == {"RenderConsoleUi", "InterpretConsoleCommand"}

\* A line on the child's stdout: a response with its discriminator (and
\* whether an Option payload is Some), or text serde_json cannot parse.
ResponseLines ==
    [tag : RequestTags, some : {TRUE}]
        \cup [tag : OptionTags, some : {FALSE}]
        \cup {[tag |-> "Garbage", some |-> TRUE]}

NoLine == [tag |-> "none", some |-> TRUE]

\* serde_json::from_str(&buf) succeeds
Parses(line) == line.tag \in RequestTags

\* A mutation of ResponseMatches: any response that parses is accepted.
ResponseMatchesAny(req, resp) == Parses(resp)

\* `if let GameProcessResponse::X = resp` / matches!(resp, Initialize): the
\* response's discriminator is the request's.
ResponseMatches(req, resp) == Parses(resp) /\ resp.tag = req

\* What an operation returns for a response line (NoLine: read_line met the
\* end of the output and left buf empty, which does not parse).
OpResult(req, resp) ==
    IF ~ResponseMatches(req, resp) THEN "err"
    ELSE IF req \in OptionTags /\ ~resp.some THEN "unsupported"
    ELSE "ok"

NoOp == [req |-> "none", writes |-> 0, readCalls |-> 0, reads |-> 0]
NoLast == [req |-> "none", writes |-> 0, readCalls |-> 0, reads |-> 0,
           resp |-> NoLine, result |-> "none"]

\* ProcessLauncher::launch up to the Initialize request: the binary is not a
\* file, or the spawn fails, or the child runs and Initialize is requested.
Launch ==
    /\ drv.pc = "unlaunched"
    /\ \/ /\ drv' = [drv EXCEPT !.pc = "launch_failed"]
          /\ UNCHANGED <<child, op>>
       \/ /\ child' = "alive"
          /\ drv' = [pc |-> "write", req |-> "Initialize", launching |-> TRUE]
          /\ op' = [NoOp EXCEPT !.req = "Initialize"]
    /\ UNCHANGED <<stdin, stdout, last, nOps>>
    /\ OnlyDriver

\* A GameInstance method builds its request and enters request().
Call(o) ==
    /\ drv.pc = "idle"
    /\ nOps < MaxOps
    /\ nOps' = nOps + 1
    /\ drv' = [drv EXCEPT !.pc = "write", !.req = o]
    /\ op' = [NoOp EXCEPT !.req = o]
    /\ UNCHANGED <<child, stdin, stdout, last>>
    /\ OnlyDriver

\* The operation returns `result` to its caller. A failed Initialize fails
\* launch, which drops the instance: kill_on_drop kills the child.
Return(result, resp) ==
    /\ last' = [req |-> op.req, writes |-> op'.writes,
                readCalls |-> op'.readCalls, reads |-> op'.reads,
                resp |-> resp, result |-> result]
    /\ IF drv.launching /\ result # "ok"
          THEN /\ drv' = [drv EXCEPT !.pc = "launch_failed", !.launching = FALSE]
               /\ child' = "exited"
          ELSE /\ drv' = [drv EXCEPT !.pc = "idle", !.launching = FALSE]
               /\ UNCHANGED child

\* request(): write_all and flush. With the child gone the pipe is broken and
\* `?` returns the error before anything is read.
Write ==
    /\ drv.pc = "write"
    /\ IF child = "alive"
          THEN /\ stdin' = Append(stdin, drv.req)
               /\ op' = [op EXCEPT !.writes = @ + 1]
               /\ drv' = [drv EXCEPT !.pc = "read"]
               /\ UNCHANGED <<child, last>>
          ELSE /\ op' = op
               /\ Return("err", NoLine)
               /\ UNCHANGED stdin
    /\ UNCHANGED <<stdout, nOps>>
    /\ OnlyDriver

\* A mutation of Read: read_line never returns at the end of the output.
ReadWaits ==
    /\ drv.pc = "read"
    /\ stdout # <<>>
    /\ stdout' = Tail(stdout)
    /\ op' = [op EXCEPT !.readCalls = @ + 1, !.reads = @ + 1]
    /\ Return(OpResult(drv.req, Head(stdout)), Head(stdout))
    /\ UNCHANGED <<stdin, nOps>>
    /\ OnlyDriver

\* request(): read_line and from_str, then the caller's check of the
\* discriminator. read_line waits while the child lives and has written
\* nothing; at the end of the output it returns with buf empty.
Read ==
    /\ drv.pc = "read"
    /\ \/ /\ stdout # <<>>
          /\ stdout' = Tail(stdout)
          /\ op' = [op EXCEPT !.readCalls = @ + 1, !.reads = @ + 1]
          /\ Return(OpResult(drv.req, Head(stdout)), Head(stdout))
       \/ /\ stdout = <<>>
          /\ child = "exited"
          /\ op' = [op EXCEPT !.readCalls = @ + 1]
          /\ Return("err", NoLine)
          /\ UNCHANGED stdout
    /\ UNCHANGED <<stdin, nOps>>
    /\ OnlyDriver

\* The owner drops the instance: kill_on_drop(true).
DropInstance ==
    /\ drv.pc = "idle"
    /\ drv' = [drv EXCEPT !.pc = "dropped"]
    /\ child' = "exited"
    /\ UNCHANGED <<stdin, stdout, op, last, nOps>>
    /\ OnlyDriver

\* The subprocess is any program: it answers the next request line with some
\* line, writes a line nobody asked for, or exits.
ChildRespond(line) ==
    /\ child = "alive"
    /\ stdin # <<>>
    /\ Len(stdout) < MaxPipe
    /\ stdin' = Tail(stdin)
    /\ stdout' = Append(stdout, line)
    /\ UNCHANGED <<child, drv, op, last, nOps>>
    /\ OnlyDriver

ChildChatter(line) ==
    /\ child = "alive"
    /\ stdin = <<>>
    /\ Len(stdout) < MaxPipe
    /\ stdout' = Append(stdout, line)
    /\ UNCHANGED <<child, stdin, drv, op, last, nOps>>
    /\ OnlyDriver

ChildExit ==
    /\ child = "alive"
    /\ child' = "exited"
    /\ UNCHANGED <<stdin, stdout, drv, op, last, nOps>>
    /\ OnlyDriver

DriverNext ==
    \/ Launch
    \/ \E o \in InstanceOps : Call(o)
    \/ Write
    \/ Read
    \/ DropInstance
    \/ \E line \in ResponseLines : ChildRespond(line)
    \/ \E line \in ResponseLines : ChildChatter(line)
    \/ ChildExit

(***************************************************************************)
(* server/src/database/transaction.rs, server/src/database/message.rs      *)
(***************************************************************************)
\* A registered hook: the closure of message::send_to_user / send_to_group,
\* which notifies the recipients of the rows it was registered for and
\* returns Ok, or any other TransactionHook, whose post_commit may fail.
NotifyHook(ms) == [kind |-> "notify", msgs |-> ms]
OtherHook == [kind |-> "other", msgs |-> {}]

TxOver == tx.phase \in {"none", "committed", "failed", "hook_failed", "rolled_back"}

\* Transaction::begin
Begin ==
    /\ TxOver
    /\ nTx < MaxTx
    /\ nTx' = nTx + 1
    /\ tx' = [phase |-> "open", idx |-> 1]
    /\ hooks' = <<>>
    /\ ran' = <<>>
    /\ rows' = {}
    /\ UNCHANGED <<durable, notified, nextMsg>>
    /\ OnlyTx

\* Transaction::on_commit
on_commit(hook) ==
    /\ hooks' = Append(hooks, hook)
    /\ ran' = Append(ran, 0)

\* message::send_to_user: the INSERT, then on_commit of the notification.
\* (When the INSERT fails, `?` returns before on_commit and nothing changes.)
send_to_user ==
    /\ tx.phase = "open"
    /\ Len(hooks) < MaxHooks
    /\ nextMsg <= MaxMsgs
    /\ rows' = rows \cup {nextMsg}
    /\ nextMsg' = nextMsg + 1
    /\ on_commit(NotifyHook({nextMsg}))
    /\ UNCHANGED <<tx, durable, notified, nTx>>
    /\ OnlyTx

\* message::send_to_group: one row per member of the group (n of them), then
\* one hook for all of them.
send_to_group(n) ==
    /\ tx.phase = "open"
    /\ Len(hooks) < MaxHooks
    /\ nextMsg + n - 1 <= MaxMsgs
    /\ rows' = rows \cup (nextMsg .. nextMsg + n - 1)
    /\ nextMsg' = nextMsg + n
    /\ on_commit(NotifyHook(nextMsg .. nextMsg + n - 1))
    /\ UNCHANGED <<tx, durable, notified, nTx>>
    /\ OnlyTx

\* on_commit of a hook that is not the notification
RegisterOther ==
    /\ tx.phase = "open"
    /\ Len(hooks) < MaxHooks
    /\ on_commit(OtherHook)
    /\ UNCHANGED <<tx, rows, durable, notified, nTx, nextMsg>>
    /\ OnlyTx

\* A mutation of PhaseAfterInnerCommit: the result of the inner commit is
\* ignored and the hooks run.
PhaseAfterInnerCommitUnchecked(ok) == "hooks"

\* commit(): `self.inner.commit().await?`
PhaseAfterInnerCommit(ok) == IF ok THEN "hooks" ELSE "failed"

\* commit(), first statement: the inner transaction commits or fails.
CommitInner(ok) ==
    /\ tx.phase = "open"
    /\ tx' = [phase |-> PhaseAfterInnerCommit(ok), idx |-> 1]
    /\ durable' = IF ok THEN durable \cup rows ELSE durable
    /\ rows' = {}
    /\ UNCHANGED <<hooks, ran, notified, nTx, nextMsg>>
    /\ OnlyTx

\* commit(), the loop: the next hook runs; an error returns through `?`.
RunHook(ok) ==
    /\ tx.phase = "hooks"
    /\ tx.idx <= Len(hooks)
    /\ ok \/ hooks[tx.idx].kind = "other"
    /\ ran' = [ran EXCEPT ![tx.idx] = @ + 1]
    /\ notified' = [m \in 1..MaxMsgs |->
                       IF m \in hooks[tx.idx].msgs THEN notified[m] + 1
                                                   ELSE notified[m]]
    /\ tx' = IF ok THEN [tx EXCEPT !.idx = @ + 1]
                   ELSE [tx EXCEPT !.phase = "hook_failed"]
    /\ UNCHANGED <<hooks, rows, durable, nTx, nextMsg>>
    /\ OnlyTx

\* commit() returns Ok(()) after the last hook.
CommitReturn ==
    /\ tx.phase = "hooks"
    /\ tx.idx > Len(hooks)
    /\ tx' = [tx EXCEPT !.phase = "committed"]
    /\ UNCHANGED <<hooks, ran, rows, durable, notified, nTx, nextMsg>>
    /\ OnlyTx

\* The Transaction is dropped without commit: sqlx rolls the inner
\* transaction back and the hooks are dropped with the Vec.
DropTransaction ==
    /\ tx.phase = "open"
    /\ tx' = [tx EXCEPT !.phase = "rolled_back"]
    /\ rows' = {}
    /\ UNCHANGED <<hooks, ran, durable, notified, nTx, nextMsg>>
    /\ OnlyTx

TxNext ==
    \/ Begin
    \/ send_to_user
    \/ \E n \in 0..MaxMsgs : send_to_group(n)
    \/ RegisterOther
    \/ \E ok \in BOOLEAN : CommitInner(ok)
    \/ \E ok \in BOOLEAN : RunHook(ok)
    \/ CommitReturn
    \/ DropTransaction

(***************************************************************************)
(* server/src/proposal_manager.rs                                          *)
(*                                                                         *)
(* One proposal id.  A connection (the ConnectionActor of a user) calls    *)
(* enter_session, holds the endpoint it returns, reads the session's       *)
(* messages from it or leaves them unread, sends terminal lines through it *)
(* and drops it.                                                           *)
(***************************************************************************)
Users == {"A", "B"}
Gens == 1..MaxGen
Chans == 1..MaxCalls

\* bichannel(4) in enter_session
ChanCap == 4
\* mpsc::channel(4) in start_proposal
SystemCap == 4

\* SessionToConnectionMsg: UserEntered, UserExited, Event(Line) of a user
Msg(t, u) == [t |-> t, u |-> u]

\* A bichannel: how many messages the inbox of the connection holds
\* (SessionToConnectionMsg; the connection treats them alike, and bc records
\* what was sent), how many the inbox of the actor holds (terminal lines),
\* and which endpoints are alive.  What a dropped receiver held is gone.
NewChan(u) ==
    [user |-> u, inbox |-> 0, cmds |-> 0, connOpen |-> TRUE, actorOpen |-> TRUE]
FreeChan ==
    [user |-> "none", inbox |-> 0, cmds |-> 0, connOpen |-> FALSE,
     actorOpen |-> FALSE]

CloseConnSide(chs, ch) ==
    IF ch = 0 THEN chs
    ELSE [chs EXCEPT ![ch].connOpen = FALSE, ![ch].inbox = 0]

CloseActorSides(chs, S) ==
    [c \in Chans |-> IF c \in S
                        THEN [chs[c] EXCEPT !.actorOpen = FALSE, !.cmds = 0]
                        ELSE chs[c]]

\* A mutation of CloseActorSide: the connection removed is kept alive.
CloseActorSideKept(chs, ch) == chs
CloseActorSide(chs, ch) == CloseActorSides(chs, {ch})

NoPend == [user |-> "none", chan |-> 0]

\* A ProposalActor that is not spawned yet.
NoActor ==
    [st |-> "none", system_q |-> <<>>, connections |-> [u \in Users |-> 0],
     stack |-> <<>>, pend |-> NoPend, handled |-> 0]

NoBroadcast ==
    [msg |-> Msg("none", "none"), members |-> {}, evicted |-> {},
     got |-> [c \in Chans |-> {}], log |-> [c \in Chans |-> <<>>]]

\* self.connections.keys()
Keys(conns) == {u \in Users : conns[u] # 0}

\* The orders in which a HashMap may yield the keys.
Perms(S) ==
    {f \in [1..Cardinality(S) -> S] :
        \A i, j \in 1..Cardinality(S) : i # j => f[i] # f[j]}

\* broadcast(): a frame per call in progress, the users still to send to.
Frame(msg, todo) == [msg |-> msg, todo |-> todo]

\* The broadcasts whose loop is over return.
RECURSIVE PopDone(_)
PopDone(stk) ==
    IF stk = <<>> THEN stk
    ELSE IF stk[Len(stk)].todo = <<>> THEN PopDone(SubSeq(stk, 1, Len(stk) - 1))
    ELSE stk

\* A mutation of AfterBroadcast: the connection that entered is forgotten.
AfterBroadcastNoInsert(rec) == [rec EXCEPT !.st = "select", !.pend = NoPend]

\* handle_system_msg after its broadcast: connections.insert(user, conn); a
\* connection the user had is replaced and dropped.
AfterBroadcast(rec) ==
    IF rec.pend.chan = 0 THEN [rec EXCEPT !.st = "select"]
    ELSE [rec EXCEPT !.st = "select",
                     !.connections[rec.pend.user] = rec.pend.chan,
                     !.pend = NoPend,
                     !.handled = @ + 1]

ChansAfterBroadcast(rec, chs) ==
    IF rec.pend.chan = 0 THEN chs
    ELSE CloseActorSide(chs, rec.connections[rec.pend.user])

\* The actor goes on to its next await: the next send of a broadcast in
\* progress, or none when the outermost broadcast has returned.
Settle(g, rec, chs) ==
    LET r == [rec EXCEPT !.stack = PopDone(@)]
    IN  /\ pa' = [pa EXCEPT ![g] =
                     [r EXCEPT !.st = IF r.stack = <<>> THEN "done" ELSE "handling"]]
        /\ chans' = chs

\* A handler of run() calls broadcast(msg).
Broadcast(g, rec, chs, msg) ==
    /\ \E order \in Perms(Keys(rec.connections)) :
          Settle(g, [rec EXCEPT !.stack = <<Frame(msg, order)>>], chs)
    /\ bc' = [NoBroadcast EXCEPT
                 !.msg = msg,
                 !.members = {rec.connections[u] : u \in Keys(rec.connections)}]

\* A mutation of remove: the user stays in the map.
removeKept(rec, u) == rec

\* self.connections.remove(&user_id)
remove(rec, u) == [rec EXCEPT !.connections[u] = 0]

\* A mutation of SpawnNeeded: the entry is overwritten, an actor spawned for
\* every call.
SpawnAlways(entry) == TRUE

\* entry(proposal_id).or_insert_with(start_proposal): only a vacant entry
\* spawns an actor.
SpawnNeeded(entry) == entry = 0

\* ConnectionActor::enter calls enter_session (with or without an active
\* session), which accesses the registry: the sender of the registered
\* actor, spawning one (start_proposal) if the entry is vacant.
Lookup(u) ==
    /\ cl[u].pc \in {"idle", "in"}
    /\ nCalls < MaxCalls
    /\ nCalls' = nCalls + 1
    /\ IF SpawnNeeded(proposals)
          THEN /\ nextGen <= MaxGen
               /\ proposals' = nextGen
               /\ pa' = [pa EXCEPT ![nextGen].st = "select"]
               /\ nextGen' = nextGen + 1
               /\ cl' = [cl EXCEPT ![u].pc = "send", ![u].gen = nextGen]
          ELSE /\ cl' = [cl EXCEPT ![u].pc = "send", ![u].gen = proposals]
               /\ UNCHANGED <<proposals, pa, nextGen>>
    /\ UNCHANGED <<chans, nextChan, nLines, bc>>
    /\ OnlyProposal

\* enter_session, bichannel(4) and s.send(Enter).await?: an error when the
\* actor has dropped its receiver, which is fatal to the ConnectionActor;
\* else the endpoint is returned and becomes the active session, the one
\* held before is dropped.
Send(u) ==
    /\ cl[u].pc = "send"
    /\ LET g == cl[u].gen
       IN  \/ /\ pa[g].st = "dropped"
              /\ cl' = [cl EXCEPT ![u].pc = "dead", ![u].ep = 0]
              /\ chans' = CloseConnSide(chans, cl[u].ep)
              /\ UNCHANGED <<pa, nextChan>>
           \/ /\ pa[g].st # "dropped"
              /\ Len(pa[g].system_q) < SystemCap
              /\ pa' = [pa EXCEPT ![g].system_q =
                            Append(@, [user |-> u, chan |-> nextChan])]
              /\ chans' = [CloseConnSide(chans, cl[u].ep) EXCEPT
                              ![nextChan] = NewChan(u)]
              /\ nextChan' = nextChan + 1
              /\ cl' = [cl EXCEPT ![u].pc = "in", ![u].ep = nextChan]
    /\ UNCHANGED <<proposals, nextGen, nLines, nCalls, bc>>
    /\ OnlyProposal

\* ConnectionActor::run, the session branch: a message of the session is
\* taken, or none is left and the actor's endpoint is gone: exit().
ClientRecv(u) ==
    /\ cl[u].pc = "in"
    /\ LET ch == cl[u].ep
       IN  \/ /\ chans[ch].inbox > 0
              /\ chans' = [chans EXCEPT ![ch].inbox = @ - 1]
              /\ UNCHANGED cl
           \/ /\ chans[ch].inbox = 0
              /\ ~chans[ch].actorOpen
              /\ chans' = CloseConnSide(chans, ch)
              /\ cl' = [cl EXCEPT ![u].pc = "idle", ![u].ep = 0]
    /\ UNCHANGED <<proposals, nextGen, pa, nextChan, nLines, nCalls, bc>>
    /\ OnlyProposal

\* handle_presentation_msg(SessionCommand): the line is sent to the session;
\* the send waits while the actor's inbox is full and its error is ignored.
ClientLine(u) ==
    /\ cl[u].pc = "in"
    /\ nLines < MaxLines
    /\ LET ch == cl[u].ep
       IN  \/ /\ chans[ch].actorOpen
              /\ chans[ch].cmds < ChanCap
              /\ chans' = [chans EXCEPT ![ch].cmds = @ + 1]
           \/ /\ ~chans[ch].actorOpen
              /\ UNCHANGED chans
    /\ nLines' = nLines + 1
    /\ UNCHANGED <<proposals, nextGen, pa, nextChan, cl, nCalls, bc>>
    /\ OnlyProposal

\* ConnectionActor::exit: the active session is dropped.
ClientExit(u) ==
    /\ cl[u].pc = "in"
    /\ chans' = CloseConnSide(chans, cl[u].ep)
    /\ cl' = [cl EXCEPT ![u].pc = "idle", ![u].ep = 0]
    /\ UNCHANGED <<proposals, nextGen, pa, nextChan, nLines, nCalls, bc>>
    /\ OnlyProposal

\* run(), first branch of the biased select: handle_system_msg(Enter).
ActorRecvSystem(g) ==
    /\ pa[g].st = "select"
    /\ pa[g].system_q # <<>>
    /\ LET m == Head(pa[g].system_q)
       IN  Broadcast(g, [pa[g] EXCEPT !.system_q = Tail(@),
                                      !.pend = [user |-> m.user, chan |-> m.chan]],
                     chans, Msg("UserEntered", m.user))
    /\ UNCHANGED <<proposals, nextGen, nextChan, cl, nLines, nCalls>>
    /\ OnlyProposal

\* run(), second branch (taken when no system message is ready): a line of a
\* member: handle_terminal_cmd; or none: disconnect_user.
ActorRecvConnection(g, u) ==
    /\ pa[g].st = "select"
    /\ pa[g].system_q = <<>>
    /\ pa[g].connections[u] # 0
    /\ LET ch == pa[g].connections[u]
       IN  \/ /\ chans[ch].cmds > 0
              /\ Broadcast(g, pa[g], [chans EXCEPT ![ch].cmds = @ - 1],
                           Msg("Line", u))
           \/ /\ chans[ch].cmds = 0
              /\ ~chans[ch].connOpen
              /\ Broadcast(g, remove(pa[g], u),
                           CloseActorSide(chans, ch), Msg("UserExited", u))
    /\ UNCHANGED <<proposals, nextGen, nextChan, cl, nLines, nCalls>>
    /\ OnlyProposal

\* A mutation of TimeoutBroadcast: the evicted user is removed and nobody is
\* told.
TimeoutBroadcastNone(u, order) == <<>>

\* timeout_user: broadcast(UserExited(user_id)), a broadcast inside the one
\* in progress.
TimeoutBroadcast(u, order) == <<Frame(Msg("UserExited", u), order)>>

\* send_to_user for the next user of the broadcast in progress: no such
\* connection any more; or the message is put into the connection's inbox;
\* or send_timeout fails (the inbox stayed full for USER_TIMEOUT, or the
\* connection dropped its endpoint) and timeout_user removes the user.
SendToUser(g) ==
    /\ pa[g].st = "handling"
    /\ LET stk  == pa[g].stack
           top  == stk[Len(stk)]
           u    == Head(top.todo)
           rest == [stk EXCEPT ![Len(stk)].todo = Tail(@)]
           ch   == pa[g].connections[u]
       IN  \/ /\ ch = 0
              /\ Settle(g, [pa[g] EXCEPT !.stack = rest], chans)
              /\ UNCHANGED bc
           \/ /\ ch # 0
              /\ chans[ch].connOpen
              /\ chans[ch].inbox < ChanCap
              /\ Settle(g, [pa[g] EXCEPT !.stack = rest],
                        [chans EXCEPT ![ch].inbox = @ + 1])
              /\ bc' = [bc EXCEPT !.got[ch] = @ \cup {top.msg},
                                  !.log[ch] = Append(@, top.msg)]
           \/ /\ ch # 0
              /\ ~chans[ch].connOpen \/ chans[ch].inbox = ChanCap
              /\ LET rec == remove(pa[g], u)
                 IN  \E order \in Perms(Keys(rec.connections)) :
                        Settle(g, [rec EXCEPT !.stack =
                                      rest \o TimeoutBroadcast(u, order)],
                               CloseActorSide(chans, ch))
              /\ bc' = [bc EXCEPT !.evicted = @ \cup {ch}]
    /\ UNCHANGED <<proposals, nextGen, nextChan, cl, nLines, nCalls>>
    /\ OnlyProposal

\* The handler returns to run(): handle_system_msg first inserts the
\* connection that entered.
ActorReturn(g) ==
    /\ pa[g].st = "done"
    /\ pa' = [pa EXCEPT ![g] = AfterBroadcast(pa[g])]
    /\ chans' = ChansAfterBroadcast(pa[g], chans)
    /\ bc' = NoBroadcast
    /\ UNCHANGED <<proposals, nextGen, nextChan, cl, nLines, nCalls>>
    /\ OnlyProposal

\* A mutation of ActorIdle: the sleep is armed whatever the connections.
ActorIdleArmed(g) ==
    /\ pa[g].st = "select"
    /\ pa[g].system_q = <<>>
    /\ pa' = [pa EXCEPT ![g].st = "stopping"]
    /\ UNCHANGED <<proposals, nextGen, chans, nextChan, cl, nLines, nCalls, bc>>
    /\ OnlyProposal

\* run(), third branch: the 1 s sleep ends with no connection and no system
\* message ready: break.
ActorIdle(g) ==
    /\ pa[g].st = "select"
    /\ pa[g].system_q = <<>>
    /\ Keys(pa[g].connections) = {}
    /\ pa' = [pa EXCEPT ![g].st = "stopping"]
    /\ UNCHANGED <<proposals, nextGen, chans, nextChan, cl, nLines, nCalls, bc>>
    /\ OnlyProposal

\* A mutation of ActorDrop: Drop::drop leaves the registry entry.
ActorDropKeepsEntry(g) ==
    /\ pa[g].st = "stopping"
    /\ pa' = [pa EXCEPT ![g].st = "dropping"]
    /\ UNCHANGED <<proposals, nextGen, chans, nextChan, cl, nLines, nCalls, bc>>
    /\ OnlyProposal

\* run() returns and the actor is dropped: Drop::drop removes the registry
\* entry of the proposal id, whichever actor it belongs to.
ActorDrop(g) ==
    /\ pa[g].st = "stopping"
    /\ proposals' = 0
    /\ pa' = [pa EXCEPT ![g].st = "dropping"]
    /\ UNCHANGED <<nextGen, chans, nextChan, cl, nLines, nCalls, bc>>
    /\ OnlyProposal

\* After Drop::drop the fields are dropped: system_r with what its queue
\* holds, and the connections.  (system_q of a dropped actor keeps the Enter
\* messages nobody handled.)
ActorDropFields(g) ==
    /\ pa[g].st = "dropping"
    /\ pa' = [pa EXCEPT ![g].st = "dropped"]
    /\ chans' = CloseActorSides(chans,
                    {pa[g].system_q[i].chan : i \in 1..Len(pa[g].system_q)}
                    \cup {pa[g].connections[u] : u \in Keys(pa[g].connections)})
    /\ UNCHANGED <<proposals, nextGen, nextChan, cl, nLines, nCalls, bc>>
    /\ OnlyProposal

ProposalNext ==
    \/ \E u \in Users : Lookup(u)
    \/ \E u \in Users : Send(u)
    \/ \E u \in Users : ClientRecv(u)
    \/ \E u \in Users : ClientLine(u)
    \/ \E u \in Users : ClientExit(u)
    \/ \E g \in Gens : ActorRecvSystem(g)
    \/ \E g \in Gens, u \in Users : ActorRecvConnection(g, u)
    \/ \E g \in Gens : SendToUser(g)
    \/ \E g \in Gens : ActorReturn(g)
    \/ \E g \in Gens : ActorIdle(g)
    \/ \E g \in Gens : ActorDrop(g)
    \/ \E g \in Gens : ActorDropFields(g)

(***************************************************************************)
(* server/src/connection_manager.rs: ConnectionManager                     *)
(*                                                                         *)
(* The registry of system senders, the ConnectionActors as far as the      *)
(* registry sees them (their system inbox, their end and their Drop), and  *)
(* one caller of broadcast at a time.                                      *)
(***************************************************************************)
ConnIds == 1..MaxConns

\* mpsc::channel(4) in open
ConnSystemCap == 4

NoConn ==
    [user |-> "none", st |-> "none", sysq |-> 0, closed |-> FALSE]

\* A user without a bucket in the DashMap.
NoBucket == [present |-> FALSE, vec |-> <<>>]

NoCast ==
    [pc |-> "idle", senders |-> {}, pending |-> {},
     res |-> [c \in ConnIds |-> "none"]]

\* open: the sender is pushed to the user's bucket (created when absent) and
\* the ConnectionActor is spawned.
open(u) ==
    /\ nextConn <= MaxConns
    /\ connections' = [connections EXCEPT
                          ![u] = [present |-> TRUE, vec |-> Append(@.vec, nextConn)]]
    /\ cas' = [cas EXCEPT ![nextConn] = [NoConn EXCEPT !.user = u, !.st = "running"]]
    /\ nextConn' = nextConn + 1
    /\ UNCHANGED cast
    /\ OnlyRegistry

\* Drop for ConnectionActor, first statement: system_r.close().  What the
\* inbox holds is never read.
Closed(rec) == [rec EXCEPT !.st = "closed", !.closed = TRUE, !.sysq = 0]

\* run(), first branch: handle_system_msg(NewMessage) is todo!(): the actor
\* panics, unwinds and its Drop begins.
ConnRecvSystem(c) ==
    /\ cas[c].st = "running"
    /\ cas[c].sysq > 0
    /\ cas' = [cas EXCEPT ![c] = Closed(@)]
    /\ UNCHANGED <<connections, nextConn, cast>>
    /\ OnlyRegistry

\* The other ends of run(): the presentation has closed (break), a handler
\* returned an Internal error, or a handler panicked (ListGames, Withdraw);
\* the Drop of the actor begins.
ConnStop(c, path) ==
    /\ cas[c].st = "running"
    /\ path = "closed" => cas[c].sysq = 0
    /\ cas' = [cas EXCEPT ![c] = Closed(@)]
    /\ UNCHANGED <<connections, nextConn, cast>>
    /\ OnlyRegistry

\* A mutation of Retain: gc keeps every sender.
RetainAll(cs, vec) == vec

\* vec.retain(|conn| !conn.s.is_closed())
Retain(cs, vec) == SelectSeq(vec, LAMBDA c : ~cs[c].closed)

\* gc(user_id): the closed senders leave the bucket, an empty bucket is
\* removed.
gc(conns, cs, u) ==
    IF ~conns[u].present THEN conns
    ELSE LET v == Retain(cs, conns[u].vec)
         IN  IF v = <<>> THEN [conns EXCEPT ![u] = NoBucket]
             ELSE [conns EXCEPT ![u].vec = v]

\* Drop for ConnectionActor, second statement: gc(self.user_id); then the
\* fields of the actor are dropped.
DropGc(c) ==
    /\ cas[c].st = "closed"
    /\ connections' = gc(connections, cas, cas[c].user)
    /\ cas' = [cas EXCEPT ![c].st = "dropped"]
    /\ UNCHANGED <<nextConn, cast>>
    /\ OnlyRegistry

\* broadcast, the senders collected: a clone of every sender in the buckets
\* of the listed users.
Senders(conns, S) ==
    UNION {{conns[u].vec[i] : i \in 1..Len(conns[u].vec)} : u \in S}

\* broadcast(user_ids, msg_fn) is called (send is a broadcast to one user):
\* the senders are collected and one send_timeout per sender is started.
broadcast(S) ==
    /\ cast.pc = "idle"
    /\ LET snd == Senders(connections, S)
       IN  cast' = [NoCast EXCEPT
                       !.pc = IF snd = {} THEN "done" ELSE "sending",
                       !.senders = snd,
                       !.pending = snd]
    /\ UNCHANGED <<connections, cas, nextConn>>
    /\ OnlyRegistry

\* A mutation of Remaining: the first failure ends the broadcast.
RemainingAbort(pending, c, r) == IF r = "ok" THEN pending \ {c} ELSE {}

\* for_each over the FuturesUnordered: an error is logged, the other sends
\* go on.
Remaining(pending, c, r) == pending \ {c}

\* One send_timeout(msg, 500 ms) of the broadcast resolves: the message is
\* put into the inbox; or the receiver is closed; or the inbox stayed full
\* for 500 ms.
BroadcastResolve(c) ==
    /\ cast.pc = "sending"
    /\ c \in cast.pending
    /\ \E r \in {"ok", "closed", "timeout"} :
          /\ r = "closed" <=> cas[c].closed
          /\ r = "ok" => cas[c].sysq < ConnSystemCap
          /\ r = "timeout" => cas[c].sysq = ConnSystemCap
          /\ cas' = IF r = "ok" THEN [cas EXCEPT ![c].sysq = @ + 1] ELSE cas
          /\ LET rest == Remaining(cast.pending, c, r)
             IN  cast' = [cast EXCEPT !.res[c] = r,
                                      !.pending = rest,
                                      !.pc = IF rest = {} THEN "done" ELSE "sending"]
    /\ UNCHANGED <<connections, nextConn>>
    /\ OnlyRegistry

\* broadcast returns to its caller.
BroadcastReturn ==
    /\ cast.pc = "done"
    /\ cast' = NoCast
    /\ UNCHANGED <<connections, cas, nextConn>>
    /\ OnlyRegistry

RegistryNext ==
    \/ \E u \in Users : open(u)
    \/ \E c \in ConnIds : ConnRecvSystem(c)
    \/ \E c \in ConnIds, path \in {"closed", "error", "panic"} : ConnStop(c, path)
    \/ \E c \in ConnIds : DropGc(c)
    \/ \E S \in SUBSET Users : broadcast(S)
    \/ \E c \in ConnIds : BroadcastResolve(c)
    \/ BroadcastReturn

(***************************************************************************)
(* server/src/connection_manager.rs: ConnectionActor                       *)
(*                                                                         *)
(* One ConnectionActor, the presentation at the other end of its           *)
(* presentation bichannel, and the session actors of one proposal and one  *)
(* game as far as this connection deals with them (server/src/             *)
(* proposal_manager.rs, server/src/game_manager.rs).                       *)
(***************************************************************************)
\* bichannel(4) in open
PresCap == 4
\* terminal.rs, connect: bichannel(1)
TermCap == 1

\* SessionType
Kinds == {"GameProposal", "Game"}

SChans == 1..MaxEnters

\* PresentationToConnectionMsg.  Enter is split by what the session record
\* is; List stands for ListProposals, ListSessions and ListMessages, Withdraw
\* for Withdraw and ListGames.
Intents ==
    {"EnterGameProposal", "EnterGame", "EnterInvalid", "Exit",
     "SessionCommand", "List", "Propose", "Withdraw"}

EnterIntents == {"EnterGameProposal", "EnterGame"}

\* The handlers that run a database transaction.
UsesDb == EnterIntents \cup {"EnterInvalid", "List", "Propose"}

KindOf(intent) == IF intent = "EnterGame" THEN "Game" ELSE "GameProposal"

NoSession ==
    [kind |-> "none", inbox |-> 0, cmds |-> 0, connOpen |-> FALSE,
     actorOpen |-> FALSE, entered |-> FALSE]

NewSession(k) ==
    [kind |-> k, inbox |-> 0, cmds |-> 0, connOpen |-> TRUE,
     actorOpen |-> TRUE, entered |-> FALSE]

\* A session actor that is not spawned: [st, q, member]: its system inbox
\* and the bichannel it holds for this connection's user.
NoSessionActor == [st |-> "none", q |-> <<>>, member |-> 0]

NoHandler == [h |-> "none", had |-> FALSE, sent |-> "none"]

\* The connection's endpoint of a session bichannel is dropped.
DropConnSide(chs, c) ==
    IF c = 0 THEN chs
    ELSE [chs EXCEPT ![c].connOpen = FALSE, ![c].inbox = 0]

\* A mutation of DropActorSides: the endpoints stay open.
DropActorSidesKept(chs, S) == chs

\* The session actor's endpoints of some bichannels are dropped.
DropActorSides(chs, S) ==
    [c \in SChans |-> IF c \in S
                         THEN [chs[c] EXCEPT !.actorOpen = FALSE, !.cmds = 0]
                         ELSE chs[c]]

\* A mutation of SystemReady: the system branch is never taken.
SystemReadyNever == FALSE

\* select! of run(): which branches are ready.
SystemReady == ca.system_q > 0
SessionReady ==
    /\ ca.active # 0
    /\ sch[ca.active].inbox > 0 \/ ~sch[ca.active].actorOpen
PresentationReady == pres.reqs > 0 \/ ~pres.open

\* send_to_presentation: send(msg).await ends when the inbox has room or
\* the presentation has dropped its endpoint.
CanPresent == pres.inbox < PresCap \/ ~pres.open

\* The send of a SessionCommand ends when the session's inbox has room or
\* the session actor has dropped its endpoint.
CanForward ==
    sch[ca.active].cmds < ChanCap \/ ~sch[ca.active].actorOpen

\* run() ends (break, Internal error or panic) and the actor is dropped with
\* its endpoints.
Die(cause) ==
    /\ ca' = [ca EXCEPT !.pc = "dead", !.active = 0, !.out = "none",
                        !.target = "none", !.system_q = 0]
    /\ sch' = DropConnSide(sch, ca.active)
    /\ hd' = [hd EXCEPT !.h = cause]

\* A mutation of exit: the session is kept.
exitKeep(active) == [active |-> active, out |-> "ExitedSession"]

\* A mutation of exit: ExitedSession whether or not a session was active.
exitSilent(active) == [active |-> 0, out |-> "ExitedSession"]

\* exit(): active_session.take(); ExitedSession if there was one, else the
\* error "No active session".
exit(active) ==
    IF active # 0 THEN [active |-> 0, out |-> "ExitedSession"]
    ELSE [active |-> 0, out |-> "Error"]

\* exit() as a handler: the session taken is dropped, the reply is to send.
Exit(cause) ==
    LET e == exit(ca.active)
    IN  /\ ca' = [ca EXCEPT !.pc = "present", !.active = e.active, !.out = e.out]
        /\ sch' = IF e.active = 0 THEN DropConnSide(sch, ca.active) ELSE sch
        /\ hd' = [h |-> cause, had |-> ca.active # 0, sent |-> "none"]

\* The presentation sends an intent.
PresRequestWithin(n) ==
    /\ pres.open
    /\ ca.pc # "dead"
    /\ pres.reqs < PresCap
    /\ nReqs < n
    /\ pres' = [pres EXCEPT !.reqs = @ + 1]
    /\ nReqs' = nReqs + 1
    /\ UNCHANGED <<ca, hd, sch, sa, nextSChan, nEvents>>
    /\ OnlyConn

PresRequest == PresRequestWithin(MaxReqs)

\* A mutation of handle_connection_msg: ExitedSession leaves active_session.
handle_connection_msg_keeps(active_session, msg) ==
    msg = "EnteredSession" \/ active_session

\* TerminalPresentation::handle_connection_msg, what it does to
\* active_session: Some on EnteredSession, None on ExitedSession.
handle_connection_msg(active_session, msg) ==
    CASE msg = "EnteredSession" -> TRUE
      [] msg = "ExitedSession" -> FALSE
      [] OTHER -> active_session

\* The presentation takes a message of the connection from its inbox
\* (pres.msgs are the messages, pres.inbox how many they are).
PresRecv ==
    /\ pres.open
    /\ pres.inbox > 0
    /\ pres' = [pres EXCEPT
                   !.inbox = @ - 1,
                   !.msgs = Tail(@),
                   !.active_session = handle_connection_msg(@, Head(pres.msgs))]
    /\ UNCHANGED <<ca, hd, sch, sa, nextSChan, nReqs, nEvents>>
    /\ OnlyConn

\* The presentation drops its endpoint; what it has sent can still be read.
PresClose ==
    /\ pres.open
    /\ pres' = [pres EXCEPT !.open = FALSE, !.inbox = 0, !.msgs = <<>>,
                            !.active_session = FALSE]
    /\ UNCHANGED <<ca, hd, sch, sa, nextSChan, nReqs, nEvents>>
    /\ OnlyConn

\* ConnectionManager::broadcast puts a NewMessage into the system inbox.
Notify ==
    /\ ca.pc # "dead"
    /\ ca.system_q < MaxNotify
    /\ ca' = [ca EXCEPT !.system_q = @ + 1]
    /\ UNCHANGED <<hd, pres, sch, sa, nextSChan, nReqs, nEvents>>
    /\ OnlyConn

\* run(), first branch: handle_system_msg(NewMessage) is todo!().
CaRecvSystem ==
    /\ ca.pc = "select"
    /\ SystemReady
    /\ Die("NewMessage")
    /\ UNCHANGED <<pres, sa, nextSChan, nReqs, nEvents>>
    /\ OnlyConn

\* run(), second branch: a message of the active session is passed on to
\* the presentation; or the session's channel is closed: exit().
CaRecvSession ==
    /\ ca.pc = "select"
    /\ ~SystemReady
    /\ SessionReady
    /\ IF sch[ca.active].inbox > 0
          THEN /\ sch' = [sch EXCEPT ![ca.active].inbox = @ - 1]
               /\ ca' = [ca EXCEPT !.pc = "present", !.out = "SessionEvent"]
               /\ hd' = [h |-> "SessionMsg", had |-> TRUE, sent |-> "none"]
          ELSE Exit("SessionClosed")
    /\ UNCHANGED <<pres, sa, nextSChan, nReqs, nEvents>>
    /\ OnlyConn

\* What a session actor holds of this connection: the bichannels in the
\* Enter messages of its system inbox and the one in its connections.
Fields(rec) == {rec.q[i] : i \in 1..Len(rec.q)} \cup ({rec.member} \ {0})

\* enter_session: entry(id).or_insert_with(start): the registered actor, or
\* when the entry is vacant a new one, spawned.
Obtain(rec) ==
    IF rec.st \in {"none", "dropping", "dropped"}
       THEN [NoSessionActor EXCEPT !.st = "running"]
       ELSE rec

\* run(), third branch: the presentation's intent is handled up to its first
\* await on a channel; or the presentation is gone: break.  (db: whether the
\* handler's database transaction succeeds.)
CaRecvPresentation(intent, db) ==
    /\ ca.pc = "select"
    /\ ~SystemReady
    /\ ~SessionReady
    /\ PresentationReady
    /\ intent \in EnterIntents => nextSChan <= MaxEnters
    /\ IF pres.reqs = 0
          THEN /\ Die("PresentationClosed")
               /\ UNCHANGED <<pres, sa>>
          ELSE /\ pres' = [pres EXCEPT !.reqs = @ - 1]
               /\ CASE intent = "Withdraw" ->
                         Die("Withdraw") /\ UNCHANGED sa
                    [] intent \in UsesDb /\ ~db ->
                         Die("DbError") /\ UNCHANGED sa
                    [] intent \in {"List", "EnterInvalid"} /\ db ->
                         /\ ca' = [ca EXCEPT
                                      !.pc = "present",
                                      !.out = IF intent = "List" THEN "List"
                                              ELSE "Error"]
                         /\ hd' = [h |-> intent, had |-> ca.active # 0,
                                   sent |-> "none"]
                         /\ UNCHANGED <<sch, sa>>
                    [] intent = "Propose" /\ db ->
                         /\ ca' = [ca EXCEPT !.pc = "done"]
                         /\ hd' = [h |-> intent, had |-> ca.active # 0,
                                   sent |-> "none"]
                         /\ UNCHANGED <<sch, sa>>
                    [] intent \in EnterIntents /\ db ->
                         LET k == KindOf(intent)
                         IN  /\ sa' = [sa EXCEPT ![k] = Obtain(@)]
                             /\ sch' = IF sa[k].st = "dropping"
                                          THEN DropActorSides(sch, Fields(sa[k]))
                                          ELSE sch
                             /\ ca' = [ca EXCEPT !.pc = "enter_send", !.target = k]
                             /\ hd' = [h |-> intent, had |-> ca.active # 0,
                                       sent |-> "none"]
                    [] intent = "Exit" ->
                         Exit("Exit") /\ UNCHANGED sa
                    [] intent = "SessionCommand" ->
                         /\ ca' = [ca EXCEPT !.pc = IF ca.active # 0 THEN "forward"
                                                    ELSE "done"]
                         /\ hd' = [h |-> intent, had |-> ca.active # 0,
                                   sent |-> "none"]
                         /\ UNCHANGED <<sch, sa>>
    /\ UNCHANGED <<nextSChan, nReqs, nEvents>>
    /\ OnlyConn

\* enter_session, bichannel(4) and s.send(Enter).await?: an error when the
\* actor has dropped its receiver, an Internal error that ends run(); else
\* enter() stores the endpoint as active_session (the session held before
\* is dropped) and goes on to send EnteredSession.
CaEnterSend ==
    /\ ca.pc = "enter_send"
    /\ LET k == ca.target
       IN  \/ /\ sa[k].st = "dropped"
              /\ Die("EnterSendFailed")
              /\ UNCHANGED <<sa, nextSChan>>
           \/ /\ sa[k].st # "dropped"
              /\ Len(sa[k].q) < SystemCap
              /\ sa' = [sa EXCEPT ![k].q = Append(@, nextSChan)]
              /\ sch' = [DropConnSide(sch, ca.active) EXCEPT
                            ![nextSChan] = NewSession(k)]
              /\ ca' = [ca EXCEPT !.pc = "present", !.active = nextSChan,
                                  !.out = "EnteredSession", !.target = "none"]
              /\ nextSChan' = nextSChan + 1
              /\ UNCHANGED hd
    /\ UNCHANGED <<pres, nReqs, nEvents>>
    /\ OnlyConn

\* send_to_presentation(msg), the last statement of the handlers and of the
\* Present error path of run().
CaPresent ==
    /\ ca.pc = "present"
    /\ CanPresent
    /\ pres' = IF pres.open
                  THEN [pres EXCEPT !.inbox = @ + 1, !.msgs = Append(@, ca.out)]
                  ELSE pres
    /\ hd' = [hd EXCEPT !.sent = ca.out]
    /\ ca' = [ca EXCEPT !.pc = "done", !.out = "none"]
    /\ UNCHANGED <<sch, sa, nextSChan, nReqs, nEvents>>
    /\ OnlyConn

\* handle_presentation_msg(SessionCommand): the command is sent to the
\* active session, the result of the send is ignored.
CaForward ==
    /\ ca.pc = "forward"
    /\ CanForward
    /\ sch' = IF sch[ca.active].actorOpen
                 THEN [sch EXCEPT ![ca.active].cmds = @ + 1]
                 ELSE sch
    /\ ca' = [ca EXCEPT !.pc = "done"]
    /\ UNCHANGED <<hd, pres, sa, nextSChan, nReqs, nEvents>>
    /\ OnlyConn

\* The handler has returned: run() loops to its select.
CaReturn ==
    /\ ca.pc = "done"
    /\ ca' = [ca EXCEPT !.pc = "select"]
    /\ hd' = NoHandler
    /\ UNCHANGED <<pres, sch, sa, nextSChan, nReqs, nEvents>>
    /\ OnlyConn

\* ProposalActor::send_to_user for this connection: the message is put into
\* its inbox, or send_timeout fails and timeout_user removes the user.
SendMember(k) ==
    LET c == sa[k].member
    IN  IF sch[c].connOpen /\ sch[c].inbox < ChanCap
           THEN /\ sch' = [sch EXCEPT ![c].inbox = @ + 1]
                /\ UNCHANGED sa
           ELSE /\ sch' = DropActorSides(sch, {c})
                /\ sa' = [sa EXCEPT ![k].member = 0]

\* ProposalActor::run, first branch: handle_system_msg(Enter): the
\* connection is inserted; the one the user had is replaced and dropped.
\* (GameActor::run has no such branch.)
SaRecvEnter(k) ==
    /\ k = "GameProposal"
    /\ sa[k].st = "running"
    /\ sa[k].q # <<>>
    /\ LET c == Head(sa[k].q)
       IN  /\ sa' = [sa EXCEPT ![k].q = Tail(@), ![k].member = c]
           /\ sch' = [DropActorSides(sch, {sa[k].member} \ {0, c}) EXCEPT
                         ![c].entered = TRUE]
    /\ UNCHANGED <<ca, hd, pres, nextSChan, nReqs, nEvents>>
    /\ OnlyConn

\* ProposalActor::run, second branch: a command of this connection is
\* broadcast as a line; or its endpoint is gone: disconnect_user.
SaRecvConnection(k) ==
    /\ k = "GameProposal"
    /\ sa[k].st = "running"
    /\ sa[k].q = <<>>
    /\ sa[k].member # 0
    /\ LET c == sa[k].member
       IN  \/ /\ sch[c].cmds > 0
              /\ IF sch[c].connOpen /\ sch[c].inbox < ChanCap
                    THEN /\ sch' = [sch EXCEPT ![c].cmds = @ - 1, ![c].inbox = @ + 1]
                         /\ UNCHANGED sa
                    ELSE SendMember(k)
           \/ /\ sch[c].cmds = 0
              /\ ~sch[c].connOpen
              /\ sch' = DropActorSides(sch, {c})
              /\ sa' = [sa EXCEPT ![k].member = 0]
    /\ UNCHANGED <<ca, hd, pres, nextSChan, nReqs, nEvents>>
    /\ OnlyConn

\* The ProposalActor broadcasts what another member caused (entered, line,
\* exited) and sends it to this connection.
SaEventWithin(k, n) ==
    /\ k = "GameProposal"
    /\ sa[k].st = "running"
    /\ sa[k].q = <<>>
    /\ sa[k].member # 0
    /\ nEvents < n
    /\ nEvents' = nEvents + 1
    /\ SendMember(k)
    /\ UNCHANGED <<ca, hd, pres, nextSChan, nReqs>>
    /\ OnlyConn

SaEvent(k) == SaEventWithin(k, MaxEvents)

\* run() returns: GameActor::run at once (Ok(())), ProposalActor::run when
\* its 1 s sleep ends with no connection and no system message.
SaStop(k) ==
    /\ sa[k].st = "running"
    /\ k = "GameProposal" => sa[k].q = <<>> /\ sa[k].member = 0
    /\ sa' = [sa EXCEPT ![k].st = "stopping"]
    /\ UNCHANGED <<ca, hd, pres, sch, nextSChan, nReqs, nEvents>>
    /\ OnlyConn

\* Drop of the session actor: the registry entry is removed.
SaDrop(k) ==
    /\ sa[k].st = "stopping"
    /\ sa' = [sa EXCEPT ![k].st = "dropping"]
    /\ UNCHANGED <<ca, hd, pres, sch, nextSChan, nReqs, nEvents>>
    /\ OnlyConn

\* The fields of the session actor are dropped: system_r with the Enter
\* messages it holds, and the connections.
SaDropFields(k) ==
    /\ sa[k].st = "dropping"
    /\ sa' = [sa EXCEPT ![k] = [NoSessionActor EXCEPT !.st = "dropped"]]
    /\ sch' = DropActorSides(sch, Fields(sa[k]))
    /\ UNCHANGED <<ca, hd, pres, nextSChan, nReqs, nEvents>>
    /\ OnlyConn

ConnNext ==
    \/ PresRequest
    \/ PresRecv
    \/ PresClose
    \/ Notify
    \/ CaRecvSystem
    \/ CaRecvSession
    \/ \E intent \in Intents, db \in BOOLEAN : CaRecvPresentation(intent, db)
    \/ CaEnterSend
    \/ CaPresent
    \/ CaForward
    \/ CaReturn
    \/ \E k \in Kinds : SaRecvEnter(k)
    \/ \E k \in Kinds : SaRecvConnection(k)
    \/ \E k \in Kinds : SaEvent(k)
    \/ \E k \in Kinds : SaStop(k)
    \/ \E k \in Kinds : SaDrop(k)
    \/ \E k \in Kinds : SaDropFields(k)

(***************************************************************************)
(* types/src/process.rs, types/src/lib.rs against launcher/src/lib.rs and  *)
(* process-launcher/src/lib.rs: the game process and the lines on its      *)
(* pipes. A line is the name of the variant and the form of its payload.   *)
(***************************************************************************)
\* A tick on the wire: GameTick is a u64 in the launcher crate and an i64
\* in the types crate.
TickClasses == {"i64", "above_i64"}

\* serde_json::to_string(&request) of a GameProcessRequest.
DriverEncode(tag, tick) ==
    CASE tag = "Initialize" -> [tag |-> tag, form |-> "setup", tick |-> "none"]
      [] tag = "LoadSnapshot" ->
            [tag |-> tag, form |-> "tick_snapshot", tick |-> tick]
      [] tag = "Advance" -> [tag |-> tag, form |-> "tick_action", tick |-> tick]
      [] tag = "RenderConsoleUi" ->
            [tag |-> tag, form |-> "player", tick |-> "none"]
      [] tag = "InterpretConsoleCommand" ->
            [tag |-> tag, form |-> "player_command", tick |-> "none"]
      [] OTHER -> [tag |-> tag, form |-> "unit", tick |-> "none"]

DriverRequests == {DriverEncode(t, k) : t \in RequestTags, k \in TickClasses}

\* The lines a client writes: the driver's, the LoadSnapshot of the types
\* crate's GameRequest (the snapshot alone), or text that is no request.
RequestLines ==
    DriverRequests
        \cup {[tag |-> "LoadSnapshot", form |-> "snapshot", tick |-> "none"],
              [tag |-> "Garbage", form |-> "none", tick |-> "none"]}

\* serde_json::from_str::<GameRequest<Self>>(&line). The payload of
\* LoadSnapshot is read as Self::Snapshot, which takes the driver's
\* {tick, snapshot} object only if it takes any object.
ProcessParses(line, anySnapshot) ==
    CASE line.tag = "Initialize" -> line.form = "setup"
      [] line.tag = "LoadSnapshot" -> line.form = "snapshot" \/ anySnapshot
      [] line.tag = "Advance" -> line.form = "tick_action" /\ line.tick = "i64"
      [] line.tag = "RenderConsoleUi" -> line.form = "player"
      [] line.tag = "InterpretConsoleCommand" -> line.form = "player_command"
      [] line.tag \in {"SaveSnapshot", "State"} -> line.form = "unit"
      [] OTHER -> FALSE

\* The payloads of the GameResponse a handler's Ok value is wrapped in:
\* a GameState with an i64 deadline (negative or not) or with results that
\* hold a score each (none, or some), an Option<ConsoleUi>, an Option of
\* the CommandResponse struct {update_ui, advance}.
ResponseForms(tag) ==
    CASE tag = "SaveSnapshot" -> {"snapshot"}
      [] tag = "State" ->
            {"in_progress", "in_progress_negative", "complete_empty",
             "complete_scores"}
      [] tag = "RenderConsoleUi" -> {"none", "ui"}
      [] tag = "InterpretConsoleCommand" -> {"none", "command_struct"}
      [] OTHER -> {"unit"}

\* The payloads serde_json::from_str::<GameProcessResponse> accepts: a
\* GameState with a u64 deadline or with results that hold a position and
\* a score each, an Option of the CommandResponse enum.
DriverForms(tag) ==
    CASE tag = "SaveSnapshot" -> {"snapshot"}
      [] tag = "State" -> {"in_progress", "complete_empty", "complete_positions"}
      [] tag = "RenderConsoleUi" -> {"none", "ui"}
      [] tag = "InterpretConsoleCommand" -> {"none", "command_enum"}
      [] tag \in {"Initialize", "LoadSnapshot", "Advance"} -> {"unit"}
      [] OTHER -> {}

\* The line of main's output as request() parses it.
AsDriverLine(line) ==
    IF line.form \in DriverForms(line.tag)
        THEN [tag |-> line.tag, some |-> line.form # "none"]
        ELSE [tag |-> "Garbage", some |-> TRUE]

NoProcess == [st |-> "none", cause |-> "none", anySnapshot |-> FALSE, open |-> FALSE]

\* A mutation of Expected: every request is handled whatever `game` is.
ExpectedAny(g, tag) == TRUE

\* The arms of `match (&mut game, request)` other than the last.
Expected(g, tag) == IF g = "None" THEN tag = "Initialize" ELSE tag # "Initialize"

\* The binary of a game is started; its Snapshot type is its own.
Start(any) ==
    /\ gp.st = "none"
    /\ gp' = [st |-> "running", cause |-> "none", anySnapshot |-> any, open |-> TRUE]
    /\ UNCHANGED <<game, gstdin, requests, responses>>
    /\ OnlyProcess

\* The client writes a line to the process's stdin.
ClientWrite(line) ==
    /\ gp.st # "none"
    /\ gp.open
    /\ Len(requests) + Len(gstdin) < MaxGameReqs
    /\ gstdin' = Append(gstdin, line)
    /\ UNCHANGED <<gp, game, requests, responses>>
    /\ OnlyProcess

\* The client closes the process's stdin.
ClientClose ==
    /\ gp.st # "none"
    /\ gp.open
    /\ gp' = [gp EXCEPT !.open = FALSE]
    /\ UNCHANGED <<game, gstdin, requests, responses>>
    /\ OnlyProcess

\* `?` and bail! return the error from main.
Fail(cause) ==
    /\ gp' = [gp EXCEPT !.st = "failed", !.cause = cause]
    /\ UNCHANGED <<game, responses>>

\* One iteration of main's loop: the line is parsed, matched with `game`,
\* handled by the game, and the response is written and flushed.
MainLoop ==
    /\ gp.st = "running"
    /\ gstdin # <<>>
    /\ gstdin' = Tail(gstdin)
    /\ requests' = Append(requests, Head(gstdin))
    /\ LET line == Head(gstdin) IN
       IF ~ProcessParses(line, gp.anySnapshot) THEN Fail("parse")
       ELSE IF ~Expected(game, line.tag) THEN Fail("unexpected")
       ELSE \/ \E cause \in {"handler", "write"} : Fail(cause)
            \/ \E form \in ResponseForms(line.tag) :
                  /\ game' = IF line.tag = "Initialize" THEN "Some" ELSE game
                  /\ responses' = Append(responses, [tag |-> line.tag, form |-> form])
                  /\ UNCHANGED gp
    /\ OnlyProcess

\* stdin().lines() ends: main returns Ok(()).
MainEof ==
    /\ gp.st = "running"
    /\ gstdin = <<>>
    /\ ~gp.open
    /\ gp' = [gp EXCEPT !.st = "ok"]
    /\ UNCHANGED <<game, gstdin, requests, responses>>
    /\ OnlyProcess

ProcessNext ==
    \/ \E any \in BOOLEAN : Start(any)
    \/ \E line \in RequestLines : ClientWrite(line)
    \/ ClientClose
    \/ MainLoop
    \/ MainEof

(***************************************************************************)
(* presentation/src/terminal.rs: a terminal endpoint, its                  *)
(* TerminalPresentation, the ConnectionActor behind it and the session the *)
(* connection enters. Messages are counted, not told apart: what a message *)
(* makes its receiver do is chosen when it is handled.                     *)
(***************************************************************************)
\* TerminalPresentation::connect: ConnectionManager::open registers and
\* spawns the ConnectionActor, then the TerminalPresentation is spawned and
\* the terminal's endpoint returned.
connect ==
    /\ tp = "none"
    /\ tp' = "select"
    /\ term' = [term EXCEPT !.st = "open"]
    /\ cact' = [pc |-> "select", session |-> FALSE, registered |-> TRUE]
    /\ UNCHANGED <<wire, psess, nTyped, nBroadcasts>>
    /\ OnlyChain

\* The terminal endpoint sends a line the user typed.
TermType ==
    /\ term.st = "open"
    /\ term.tq < TermCap
    /\ nTyped < MaxTyped
    /\ nTyped' = nTyped + 1
    /\ term' = [term EXCEPT !.tq = @ + 1]
    /\ UNCHANGED <<tp, wire, cact, psess, nBroadcasts>>
    /\ OnlyChain

\* The terminal endpoint takes a line sent to it.
TermRead ==
    /\ term.st = "open"
    /\ term.tout > 0
    /\ term' = [term EXCEPT !.tout = @ - 1]
    /\ UNCHANGED <<tp, wire, cact, psess, nTyped, nBroadcasts>>
    /\ OnlyChain

\* The terminal endpoint drops its channel: what it has sent can still be
\* read, what was sent to it is dropped.
TermDrop ==
    /\ term.st = "open"
    /\ term' = [term EXCEPT !.st = "dropped", !.tout = 0]
    /\ UNCHANGED <<tp, wire, cact, psess, nTyped, nBroadcasts>>
    /\ OnlyChain

\* run(), first branch of the biased select: a message of the connection
\* (EnteredSession is only noted, an Error goes to handle_error, the others
\* are printed), or none: break.
TpRecvConnection ==
    /\ tp = "select"
    /\ \/ /\ wire.c2a > 0
          /\ wire' = [wire EXCEPT !.c2a = @ - 1]
          /\ tp' \in {"select", "send_term", "send_err"}
       \/ /\ wire.c2a = 0
          /\ cact.pc = "stopped"
          /\ tp' = "stopped"
          /\ UNCHANGED wire
    /\ UNCHANGED <<term, cact, psess, nTyped, nBroadcasts>>
    /\ OnlyChain

\* run(), second branch (no message of the connection is ready): a line of
\* the terminal, which handle_read_line turns into an intent for the
\* connection, a line for the terminal, an error to print or nothing; or
\* none: break.
TpRecvTerminal ==
    /\ tp = "select"
    /\ wire.c2a = 0
    /\ cact.pc # "stopped"
    /\ \/ /\ term.tq > 0
          /\ term' = [term EXCEPT !.tq = @ - 1]
          /\ tp' \in {"send_conn", "send_term", "send_err", "select"}
       \/ /\ term.tq = 0
          /\ term.st = "dropped"
          /\ tp' = "stopped"
          /\ UNCHANGED term
    /\ UNCHANGED <<wire, cact, psess, nTyped, nBroadcasts>>
    /\ OnlyChain

\* send_to_terminal and the send of handle_error: the send waits while the
\* terminal's inbox is full; with the terminal gone send_to_terminal's
\* error is Disconnected, which run() passes over, and handle_error's is
\* returned from run().
TpSendTerminal ==
    /\ tp \in {"send_term", "send_err"}
    /\ \/ /\ term.st = "open"
          /\ term.tout < TermCap
          /\ term' = [term EXCEPT !.tout = @ + 1]
          /\ tp' = "select"
       \/ /\ term.st = "dropped"
          /\ tp' = IF tp = "send_err" THEN "stopped" ELSE "select"
          /\ UNCHANGED term
    /\ UNCHANGED <<wire, cact, psess, nTyped, nBroadcasts>>
    /\ OnlyChain

\* send_to_connection: the send waits while the ConnectionActor's inbox is
\* full; with the ConnectionActor gone its error is printed.
TpSendConnection ==
    /\ tp = "send_conn"
    /\ \/ /\ cact.pc # "stopped"
          /\ wire.a2c < PresCap
          /\ wire' = [wire EXCEPT !.a2c = @ + 1]
          /\ tp' = "select"
       \/ /\ cact.pc = "stopped"
          /\ tp' = "send_err"
          /\ UNCHANGED wire
    /\ UNCHANGED <<term, cact, psess, nTyped, nBroadcasts>>
    /\ OnlyChain

\* The ConnectionActor is dropped: Drop garbage-collects the registry
\* entry, and the active session's endpoint is dropped with the fields.
Dropped == [pc |-> "stopped", session |-> FALSE, registered |-> FALSE]

\* ConnectionActor::run, the session branch: an event of the session is to
\* be passed on, or none is left and the session's endpoint is gone:
\* exit(), which sends ExitedSession.
ChainRecvSession ==
    /\ cact.pc = "select"
    /\ cact.session
    /\ \/ /\ psess.q > 0
          /\ psess' = [psess EXCEPT !.q = @ - 1]
          /\ cact' = [cact EXCEPT !.pc = "send_pres"]
       \/ /\ psess.q = 0
          /\ ~psess.member
          /\ cact' = [cact EXCEPT !.pc = "send_pres", !.session = FALSE]
          /\ UNCHANGED psess
    /\ UNCHANGED <<term, tp, wire, nTyped, nBroadcasts>>
    /\ OnlyChain

\* ConnectionActor::run, the presentation branch (the session branch is not
\* ready): an intent, handled as Enter (the session is entered and
\* EnteredSession sent), as one that is answered, as one that needs no
\* answer, or with an Internal error or a panic; or none: break.
ChainRecvPresentation(kind) ==
    /\ cact.pc = "select"
    /\ ~(cact.session /\ (psess.q > 0 \/ ~psess.member))
    /\ \/ /\ wire.a2c > 0
          /\ wire' = [wire EXCEPT !.a2c = @ - 1]
          /\ CASE kind = "Enter" ->
                    /\ cact' = [cact EXCEPT !.pc = "send_pres", !.session = TRUE]
                    /\ psess' = [member |-> TRUE, q |-> 0]
               [] kind = "Answered" ->
                    /\ cact' = [cact EXCEPT !.pc = "send_pres"]
                    /\ UNCHANGED psess
               [] kind = "Silent" -> UNCHANGED <<cact, psess>>
               [] kind = "Fatal" -> cact' = Dropped /\ UNCHANGED psess
       \/ /\ wire.a2c = 0
          /\ tp = "stopped"
          /\ kind = "Silent"
          /\ cact' = Dropped
          /\ UNCHANGED <<wire, psess>>
    /\ UNCHANGED <<term, tp, nTyped, nBroadcasts>>
    /\ OnlyChain

\* send_to_presentation: the send waits while the TerminalPresentation's
\* inbox is full; its error is ignored.
ChainSendPresentation ==
    /\ cact.pc = "send_pres"
    /\ \/ /\ tp # "stopped"
          /\ wire.c2a < PresCap
          /\ wire' = [wire EXCEPT !.c2a = @ + 1]
       \/ /\ tp = "stopped"
          /\ UNCHANGED wire
    /\ cact' = [cact EXCEPT !.pc = "select"]
    /\ UNCHANGED <<term, tp, psess, nTyped, nBroadcasts>>
    /\ OnlyChain

\* ProposalActor::send_to_user for an event of the session: the event is
\* put into the connection's inbox, or the inbox stayed full for
\* USER_TIMEOUT and timeout_user removes the user.
ProposalEvent ==
    /\ psess.member
    /\ cact.session
    /\ nBroadcasts < MaxBroadcasts
    /\ nBroadcasts' = nBroadcasts + 1
    /\ psess' = IF psess.q < ChanCap THEN [psess EXCEPT !.q = @ + 1]
                                     ELSE [psess EXCEPT !.member = FALSE]
    /\ UNCHANGED <<term, tp, wire, cact, nTyped>>
    /\ OnlyChain

\* ProposalActor::run, the connection branch: the connection's endpoint is
\* gone: disconnect_user.
ProposalObserve ==
    /\ psess.member
    /\ ~cact.session
    /\ psess' = [psess EXCEPT !.member = FALSE]
    /\ UNCHANGED <<term, tp, wire, cact, nTyped, nBroadcasts>>
    /\ OnlyChain

ChainNext ==
    \/ connect
    \/ TermType
    \/ TermRead
    \/ TermDrop
    \/ TpRecvConnection
    \/ TpRecvTerminal
    \/ TpSendTerminal
    \/ TpSendConnection
    \/ ChainRecvSession
    \/ \E kind \in {"Enter", "Answered", "Silent", "Fatal"} :
          ChainRecvPresentation(kind)
    \/ ChainSendPresentation
    \/ ProposalEvent
    \/ ProposalObserve

(***************************************************************************)
(* games/rock-paper-scissors/src/main.rs: the game of one subprocess, and  *)
(* server/src/game_manager.rs: the GameActor of its session.               *)
(*                                                                         *)
(* A GameTick is an i64; it is modelled at a width of TickBits bits.       *)
(* Scores and round counts stay far from the limits of an i64 in the runs  *)
(* considered and are plain integers.                                      *)
(***************************************************************************)
TickMax == 2 ^ (TickBits - 1) - 1
TickMin == 0 - 2 ^ (TickBits - 1)
\* impl Add for GameTick: i64 addition, which panics on overflow in a build
\* with overflow checks and wraps in one without.
Fits(x) == TickMin <= x /\ x <= TickMax
WrapTick(x) == ((x - TickMin) % (2 ^ TickBits)) + TickMin

\* The ticks a host sends, the rules of a setup, the players and the
\* commands of a console.
Ticks == {1, TickMax}
RulesSet == [num_rounds : {1, 2}, turn_timeout : {1, 2}]
Players == {0, 1}
Commands == {"R", "paper", "x"}
PlayerActions == {"Rock", "Paper", "Scissors"}
NoRules == [num_rounds |-> 0, turn_timeout |-> 0]

\* impl Display for Action and for Outcome
Display(x) ==
    CASE x = "Rock" -> "rock"
      [] x = "Paper" -> "paper"
      [] x = "Scissors" -> "scissors"
      [] x = "Won" -> "won"
      [] x = "Lost" -> "lost"
      [] x = "Drew" -> "drew"

Neg(o) == CASE o = "Won" -> "Lost" [] o = "Lost" -> "Won" [] o = "Drew" -> "Drew"

score(o) == CASE o = "Won" -> 3 [] o = "Lost" -> 0 [] o = "Drew" -> 1

\* A prompt: the empty string, one of the two fixed sentences, or
\* "You played {a} and {o} against {b}."
Prompt(msg, a, o, b) == [msg |-> msg, a |-> a, o |-> o, b |-> b]
EmptyPrompt == Prompt("", "", "", "")
WonByTimeout == Prompt("You won this round because the other player took too long to go.", "", "", "")
LostByTimeout == Prompt("You lost this round because you took too long to go.", "", "", "")

\* Snapshot::default()
DefaultSnapshot ==
    [player0_score |-> 0, player1_score |-> 0, rounds_played |-> 0,
     player0_action |-> "None", last_action |-> 0,
     player0_prompt |-> EmptyPrompt, player1_prompt |-> EmptyPrompt]

player_turn(g) == IF g.state.player0_action # "None" THEN 1 ELSE 0

\* new(setup)
new(rules) == [rules |-> rules, state |-> DefaultSnapshot]

\* The match of advance: player 0's outcome.
Outcome0Ignored(p0a, p1a) == "Won"
Outcome0(p0a, p1a) ==
    CASE p0a = p1a -> "Drew"
      [] <<p0a, p1a>> \in {<<"Rock", "Paper">>, <<"Paper", "Scissors">>,
                           <<"Scissors", "Rock">>} -> "Lost"
      [] <<p0a, p1a>> \in {<<"Rock", "Scissors">>, <<"Scissors", "Paper">>,
                           <<"Paper", "Rock">>} -> "Won"

\* advance(tick, action): the game afterwards.
advance(g, tick, action) ==
    LET s == g.state
        p0a == s.player0_action
        o == IF action # "None" THEN Outcome0(p0a, action) ELSE "Won"
        scored ==
            IF p0a # "None"
            THEN [s EXCEPT
                    !.player0_action = "None",
                    !.player0_prompt =
                        IF action # "None"
                        THEN Prompt("You played", Display(p0a), Display(o),
                                    Display(action))
                        ELSE WonByTimeout,
                    !.player1_prompt =
                        IF action # "None"
                        THEN Prompt("You played", Display(action),
                                    Display(Neg(o)), Display(p0a))
                        ELSE LostByTimeout,
                    !.player0_score = @ + score(o),
                    !.player1_score = @ + score(Neg(o)),
                    !.rounds_played = @ + 1]
            ELSE IF action = "None"
            THEN [s EXCEPT
                    !.player0_prompt = LostByTimeout,
                    !.player1_prompt = WonByTimeout,
                    !.player1_score = @ + 3,
                    !.rounds_played = @ + 1,
                    !.player0_action = action]
            ELSE [s EXCEPT !.player0_action = action]
    IN  [g EXCEPT !.state = [scored EXCEPT !.last_action = tick]]

\* The unit response; the other responses set their fields in it.
Unit ==
    [kind |-> "Unit", player_turn |-> 0, deadline |-> 0,
     player_results |-> <<>>, update_ui |-> "None", advance |-> "None",
     snapshot |-> <<>>]

\* state(): the GameState returned, with the deadline as the sum is in the
\* integers; GameState (the action) gives it its width.
state(g) ==
    IF g.state.rounds_played < g.rules.num_rounds
    THEN [Unit EXCEPT
            !.kind = "InProgress",
            !.player_turn = player_turn(g),
            !.deadline = g.state.last_action + g.rules.turn_timeout]
    ELSE [Unit EXCEPT
            !.kind = "Complete",
            !.player_results =
                <<g.state.player0_score, g.state.player1_score>>]

\* str::to_ascii_lowercase on the commands considered
to_ascii_lowercase(c) == IF c = "R" THEN "r" ELSE c

\* interpret_console_command(player, command): the CommandResponse, whose
\* fields default to None; advance is Some(Some(action)) when it is set.
interpretAnyPlayer(g, player, command) ==
    LET c == to_ascii_lowercase(command) IN
    [Unit EXCEPT
       !.kind = "CommandResponse",
       !.advance = IF c \in {"r", "rock"} THEN "Rock"
                   ELSE IF c \in {"p", "paper"} THEN "Paper" ELSE "Scissors"]
interpret_console_command(g, player, command) ==
    LET c == to_ascii_lowercase(command) IN
    LET r == [Unit EXCEPT !.kind = "CommandResponse"] IN
    IF player # player_turn(g)
    THEN [r EXCEPT !.update_ui = "It's not your turn yet!"]
    ELSE IF c \in {"r", "rock"} THEN [r EXCEPT !.advance = "Rock"]
    ELSE IF c \in {"p", "paper"} THEN [r EXCEPT !.advance = "Paper"]
    ELSE IF c \in {"s", "scissors"} THEN [r EXCEPT !.advance = "Scissors"]
    ELSE [r EXCEPT !.update_ui = "Invalid command"]

\* render_console_ui(player) of the game: the prompt is written into a
\* local String (the lines, each with its round number) and the function
\* returns Ok(None).  (The players considered are 0 and 1, for which the
\* match has an arm.)
render_console_ui(g, player) ==
    LET s == g.state
        prompt ==
            (IF s.player0_action = "None" /\ s.rounds_played > 0
                THEN <<[round |-> s.rounds_played,
                        line |-> IF player = 0 THEN s.player0_prompt
                                 ELSE s.player1_prompt]>>
                ELSE <<>>)
            \o
            (IF s.rounds_played < g.rules.num_rounds
                THEN <<[round |-> s.rounds_played + 1,
                        line |-> IF player_turn(g) = player
                                    THEN Prompt("It's your go! Enter [r]ock, [p]aper or [s]cissors:", "", "", "")
                                    ELSE Prompt("Waiting for the other player...", "", "", "")]>>
                ELSE <<>>)
    IN  [Unit EXCEPT !.kind = "RenderConsoleUi", !.update_ui = "None"]

\* GameProcess::render_console_ui of the launcher, given the response:
\* ui.ok_or(UnsupportedPresentationMode), or a response type error.
process_render_console_ui(resp) ==
    IF resp.kind = "RenderConsoleUi"
       THEN IF resp.update_ui # "None" THEN "Ok"
            ELSE "UnsupportedPresentationMode"
       ELSE "ResponseTypeError"

\* serde's derived Serialize of Snapshot to JSON: the integers and the
\* GameTick newtype as numbers, Option<Action> as null or the variant's
\* name, the prompts as strings.
Num(n) == [t |-> "num", n |-> n, s |-> "", p |-> EmptyPrompt]
Str(x) == [t |-> "str", n |-> 0, s |-> x, p |-> EmptyPrompt]
Text(p) == [t |-> "text", n |-> 0, s |-> "", p |-> p]
Null == [t |-> "null", n |-> 0, s |-> "", p |-> EmptyPrompt]
Serialize(s) ==
    [player0_score |-> Num(s.player0_score),
     player1_score |-> Num(s.player1_score),
     rounds_played |-> Num(s.rounds_played),
     player0_action |->
        IF s.player0_action = "None" THEN Null ELSE Str(s.player0_action),
     last_action |-> Num(s.last_action),
     player0_prompt |-> Text(s.player0_prompt),
     player1_prompt |-> Text(s.player1_prompt)]

\* serde's derived Deserialize of Option<Action>
DeserializeOptionNone(v) == "None"
DeserializeOption(v) ==
    IF v.t = "null" THEN "None"
    ELSE IF v.t = "str" /\ v.s \in PlayerActions THEN v.s
    ELSE "Err"

\* serde's derived Deserialize of Snapshot: the snapshot, or nothing
\* unless every field is of its type.
Deserialize(w) ==
    IF \/ \E f \in {"player0_score", "player1_score", "rounds_played",
                    "last_action"} : w[f].t # "num"
       \/ ~Fits(w.last_action.n)
       \/ DeserializeOption(w.player0_action) = "Err"
       \/ w.player0_prompt.t # "text"
       \/ w.player1_prompt.t # "text"
    THEN <<>>
    ELSE <<[player0_score |-> w.player0_score.n,
          player1_score |-> w.player1_score.n,
          rounds_played |-> w.rounds_played.n,
          player0_action |-> DeserializeOption(w.player0_action),
          last_action |-> w.last_action.n,
          player0_prompt |-> w.player0_prompt.p,
          player1_prompt |-> w.player1_prompt.p]>>

NoSaved == <<>>
NoAnswer ==
    [op |-> "none", tick |-> 0, action |-> "None", player |-> 0,
     command |-> "", resp |-> Unit]
Answer(o, r) == [NoAnswer EXCEPT !.op = o, !.resp = r]
Game == [rules |-> rps.rules, state |-> rps.state]

\* Initialize, which main accepts while it has no game: the game is made
\* with new(setup).
GameNew(rules) ==
    /\ rps.live = "None"
    /\ rps' = [live |-> "Some", rules |-> rules, state |-> new(rules).state]
    /\ answer' = Answer("new", Unit)
    /\ UNCHANGED <<saved, nAdv, now, gactor>>
    /\ OnlyGame

\* Advance { tick, action }
GameAdvance(tick, action) ==
    /\ rps.live = "Some"
    /\ nAdv < MaxAdvances
    /\ nAdv' = nAdv + 1
    /\ rps' = [rps EXCEPT !.state = advance(Game, tick, action).state]
    /\ answer' = [Answer("advance", Unit) EXCEPT !.tick = tick,
                                                   !.action = action]
    /\ UNCHANGED <<saved, now, gactor>>
    /\ OnlyGame

\* State: the sum of the deadline overflows or not; when it does the
\* process panics or answers with the wrapped sum, as it was built.
GameState ==
    /\ rps.live = "Some"
    /\ LET r == state(Game) IN
       \/ /\ Fits(r.deadline)
          /\ rps' = rps
          /\ answer' = Answer("state", r)
       \/ /\ ~Fits(r.deadline)
          /\ \/ /\ rps' = [rps EXCEPT !.live = "Panicked"]
                /\ answer' = Answer("state", [Unit EXCEPT !.kind = "panic"])
             \/ /\ rps' = rps
                /\ answer' =
                     Answer("state", [r EXCEPT !.deadline = WrapTick(@)])
    /\ UNCHANGED <<saved, nAdv, now, gactor>>
    /\ OnlyGame

\* SaveSnapshot: the response carries the snapshot, which the host keeps.
GameSave ==
    /\ rps.live = "Some"
    /\ saved' = <<Serialize(rps.state)>>
    /\ answer' =
         Answer("save_snapshot",
                [Unit EXCEPT !.kind = "Snapshot",
                             !.snapshot = <<Serialize(rps.state)>>])
    /\ UNCHANGED <<rps, nAdv, now, gactor>>
    /\ OnlyGame

\* LoadSnapshot with a snapshot the host kept: the line parses into the
\* request when the snapshot deserializes.
GameLoad ==
    /\ rps.live = "Some"
    /\ saved # NoSaved
    /\ Deserialize(saved[1]) # <<>>
    /\ rps' = [rps EXCEPT !.state = Deserialize(saved[1])[1]]
    /\ answer' = Answer("load_snapshot", Unit)
    /\ UNCHANGED <<saved, nAdv, now, gactor>>
    /\ OnlyGame

\* InterpretConsoleCommand { player, command }
GameInterpret(player, command) ==
    /\ rps.live = "Some"
    /\ answer' =
         [Answer("interpret_console_command",
                 interpret_console_command(Game, player, command))
            EXCEPT !.player = player, !.command = command]
    /\ UNCHANGED <<rps, saved, nAdv, now, gactor>>
    /\ OnlyGame

\* RenderConsoleUi { player }: the response carries the Option<ConsoleUi>
\* (in update_ui).
GameRender(player) ==
    /\ rps.live = "Some"
    /\ answer' = [Answer("render_console_ui", render_console_ui(Game, player))
                    EXCEPT !.player = player]
    /\ UNCHANGED <<rps, saved, nAdv, now, gactor>>
    /\ OnlyGame

\* Wall time passes.
ClockTick ==
    /\ now < TickMax
    /\ now' = now + 1
    /\ UNCHANGED <<rps, saved, answer, nAdv, gactor>>
    /\ OnlyGame

\* GameManager::enter_session: the entry of the game, made by start_game
\* when there is none, is sent an Enter, which stays in the actor's inbox:
\* the actor reads nothing.
enter_session ==
    /\ gactor' = [gactor EXCEPT !.st = "running"]
    /\ UNCHANGED <<rps, saved, answer, nAdv, now>>
    /\ OnlyGame

\* GameActor::run returns Ok(()) at once; the actor is dropped with its
\* inbox and its Drop removes the games entry.  It sends nothing.
GameActorRun ==
    /\ gactor.st = "running"
    /\ gactor' = [gactor EXCEPT !.st = "dropped"]
    /\ UNCHANGED <<rps, saved, answer, nAdv, now>>
    /\ OnlyGame

GameNext ==
    \/ \E rules \in RulesSet : GameNew(rules)
    \/ \E tick \in Ticks, action \in PlayerActions \cup {"None"} :
          GameAdvance(tick, action)
    \/ GameState
    \/ GameSave
    \/ GameLoad
    \/ \E player \in Players, command \in Commands :
          GameInterpret(player, command)
    \/ \E player \in Players : GameRender(player)
    \/ ClockTick
    \/ enter_session
    \/ GameActorRun

(***************************************************************************)
(* presentation/src/lib.rs: declare_ids!, the typed identifiers and their  *)
(* textual form.  A text is a sequence of characters.  The i64 of an id is *)
(* modelled at a width of IdBits bits.                                     *)
(***************************************************************************)
\* The prefix of each id type.
Prefix ==
    [UserId |-> "u", GameId |-> "g", GameProposalId |-> "p", SessionId |-> "s",
     RequestId |-> "r", MessageId |-> "m", GroupId |-> "o"]
IdTypes == DOMAIN Prefix
IdMax == 2 ^ (IdBits - 1) - 1
IdMin == 0 - 2 ^ (IdBits - 1)
DigitChars == <<"0", "1", "2", "3", "4", "5", "6", "7", "8", "9">>

\* impl Display for i64: the decimal digits, after a minus sign when the
\* number is negative.
RECURSIVE Digits(_)
Digits(n) ==
    IF n < 10 THEN <<DigitChars[n + 1]>>
    ELSE Digits(n \div 10) \o <<DigitChars[(n % 10) + 1]>>
Decimal(n) == IF n < 0 THEN <<"-">> \o Digits(0 - n) ELSE Digits(n)

\* impl Display for an id: write!(f, "{}{}", prefix, self.0)
fmt(ty, n) == <<Prefix[ty]>> \o Decimal(n)

\* The value of a digit, or -1 for another character.
DigitOf(c) ==
    IF \E d \in 1..10 : DigitChars[d] = c
    THEN (CHOOSE d \in 1..10 : DigitChars[d] = c) - 1
    ELSE 0 - 1

\* i64::from_str: an optional sign, then one digit at least and digits only;
\* the number is accumulated digit by digit and must stay in range.
\* [ok, n].
RECURSIVE Accumulate(_, _, _)
Accumulate(s, acc, sign) ==
    IF s = <<>> THEN [ok |-> TRUE, n |-> acc]
    ELSE LET d == DigitOf(Head(s))
             next == acc * 10 + sign * d
         IN  IF d < 0 \/ next > IdMax \/ next < IdMin
             THEN [ok |-> FALSE, n |-> 0]
             ELSE Accumulate(Tail(s), next, sign)
parse(s) ==
    IF s = <<>> THEN [ok |-> FALSE, n |-> 0]
    ELSE IF Head(s) \in {"+", "-"}
    THEN IF Tail(s) = <<>> THEN [ok |-> FALSE, n |-> 0]
         ELSE Accumulate(Tail(s), 0, IF Head(s) = "-" THEN 0 - 1 ELSE 1)
    ELSE Accumulate(s, 0, 1)

\* impl FromStr for an id: strip_prefix(prefix), then parse; either failure
\* is InvalidIdError.
from_str_any_prefix(ty, s) ==
    IF s = <<>> THEN [ok |-> FALSE, n |-> 0] ELSE parse(Tail(s))
from_str(ty, s) ==
    IF s = <<>> \/ Head(s) # Prefix[ty]
    THEN [ok |-> FALSE, n |-> 0]
    ELSE parse(Tail(s))

\* The characters of the texts typed.
TypedChars == {"u", "s", "-", "+", "1", "9"}
NoShown == [ty |-> "none", n |-> 0, text |-> <<>>]
NoParsed == [ty |-> "none", ok |-> FALSE, n |-> 0]

\* An id is formatted.
IdShow(ty, n) ==
    /\ shown = NoShown \/ parsed # NoParsed
    /\ shown' = [ty |-> ty, n |-> n, text |-> fmt(ty, n)]
    /\ parsed' = NoParsed
    /\ OnlyIds

\* A text comes from elsewhere, once the text before it was parsed.
IdTyped(text) ==
    /\ shown = NoShown \/ parsed # NoParsed
    /\ shown' = [ty |-> "none", n |-> 0, text |-> text]
    /\ parsed' = NoParsed
    /\ OnlyIds

\* The text is parsed as an id of a type.
IdParse(ty) ==
    /\ parsed' = [ty |-> ty, ok |-> from_str(ty, shown.text).ok,
                  n |-> from_str(ty, shown.text).n]
    /\ UNCHANGED shown
    /\ OnlyIds

IdsNext ==
    \/ \E ty \in IdTypes, n \in IdMin..IdMax : IdShow(ty, n)
    \/ \E len \in 0..MaxIdLen : \E text \in [1..len -> TypedChars] : IdTyped(text)
    \/ \E ty \in IdTypes : IdParse(ty)

(***************************************************************************)
(* presentation/src/bichannel.rs: one pair of endpoints.  Channel 1 is     *)
(* mpsc::channel (s1, r1) and channel 2 is (s2, r2); endpoint "A" is the   *)
(* first of the pair returned and "B" the second.                          *)
(***************************************************************************)
Ends == {"A", "B"}
Peer(e) == IF e = "A" THEN "B" ELSE "A"
\* Bichannel { s: s1, r: r2 } and Bichannel { s: s2, r: r1 }: the channel
\* of an endpoint's send half and that of its receive half.
SendChan(e) == IF e = "A" THEN 1 ELSE 2
RecvChanOwn(e) == SendChan(e)
RecvChan(e) == IF e = "A" THEN 2 ELSE 1

NoBichannel ==
    [made |-> FALSE, cap |-> 0, buf |-> <<<<>>, <<>>>>,
     s |-> [e \in Ends |-> FALSE], r |-> [e \in Ends |-> FALSE]]

\* bichannel(buffer): two channels of that capacity.  mpsc::channel panics
\* on a buffer of 0, so nothing is returned then.
bichannel(buffer) ==
    /\ ~bi.made
    /\ buffer > 0
    /\ bi' = [made |-> TRUE, cap |-> buffer, buf |-> <<<<>>, <<>>>>,
              s |-> [e \in Ends |-> TRUE], r |-> [e \in Ends |-> TRUE]]
    /\ UNCHANGED <<bsent, bgot>>
    /\ OnlyBichannel

\* e.s.send(msg) returns Ok: the channel has a free slot and its receiver
\* lives.  The message is the endpoint's next one.  On a full channel the
\* send waits, and with the receiver gone it returns an error.
BiSend(e) ==
    /\ bi.s[e]
    /\ Len(bsent[e]) < MaxBiMsgs
    /\ \E o \in Ends :
          /\ RecvChan(o) = SendChan(e)
          /\ bi.r[o]
    /\ Len(bi.buf[SendChan(e)]) < bi.cap
    /\ LET msg == [from |-> e, k |-> Len(bsent[e]) + 1] IN
       /\ bi' = [bi EXCEPT !.buf[SendChan(e)] = Append(@, msg)]
       /\ bsent' = [bsent EXCEPT ![e] = Append(@, msg)]
    /\ UNCHANGED bgot
    /\ OnlyBichannel

\* e.r.recv().await returns: the oldest message buffered, or none when the
\* buffer is empty and no sender of the channel is left.  Otherwise it
\* waits.
BiRecv(e) ==
    /\ bi.r[e]
    /\ Len(bgot[e]) < MaxBiMsgs + 1
    /\ LET c == RecvChan(e) IN
       \/ /\ bi.buf[c] # <<>>
          /\ bgot' = [bgot EXCEPT ![e] = Append(@, Head(bi.buf[c]))]
          /\ bi' = [bi EXCEPT !.buf[c] = Tail(@)]
       \/ /\ bi.buf[c] = <<>>
          /\ \A o \in Ends : SendChan(o) = c => ~bi.s[o]
          /\ bgot' = [bgot EXCEPT ![e] = Append(@, [from |-> "none", k |-> 0])]
          /\ bi' = bi
    /\ UNCHANGED bsent
    /\ OnlyBichannel

\* The send half of an endpoint is dropped.
BiDropSend(e) ==
    /\ bi.s[e]
    /\ bi' = [bi EXCEPT !.s[e] = FALSE]
    /\ UNCHANGED <<bsent, bgot>>
    /\ OnlyBichannel

\* The receive half of an endpoint is dropped, and with it what the
\* channel buffers.
BiDropRecv(e) ==
    /\ bi.r[e]
    /\ bi' = [bi EXCEPT !.r[e] = FALSE, !.buf[RecvChan(e)] = <<>>]
    /\ UNCHANGED <<bsent, bgot>>
    /\ OnlyBichannel

BichannelNext ==
    \/ \E buffer \in 0..MaxBuf : bichannel(buffer)
    \/ \E e \in Ends : BiSend(e)
    \/ \E e \in Ends : BiRecv(e)
    \/ \E e \in Ends : BiDropSend(e)
    \/ \E e \in Ends : BiDropRecv(e)

(***************************************************************************)
(* The state after construction: no subprocess launched, no transaction    *)
(* begun, no proposal entered, no connection opened at the registry; the   *)
(* one ConnectionActor of SpecConn as open() has spawned it.               *)
(***************************************************************************)
Init ==
    /\ child = "none"
    /\ stdin = <<>>
    /\ stdout = <<>>
    /\ drv = [pc |-> "unlaunched", req |-> "none", launching |-> FALSE]
    /\ op = NoOp
    /\ last = NoLast
    /\ nOps = 0
    /\ tx = [phase |-> "none", idx |-> 1]
    /\ hooks = <<>>
    /\ ran = <<>>
    /\ rows = {}
    /\ durable = {}
    /\ notified = [m \in 1..MaxMsgs |-> 0]
    /\ nTx = 0
    /\ nextMsg = 1
    /\ proposals = 0
    /\ nextGen = 1
    /\ pa = [g \in Gens |-> NoActor]
    /\ chans = [c \in Chans |-> FreeChan]
    /\ nextChan = 1
    /\ cl = [u \in Users |-> [pc |-> "idle", gen |-> 0, ep |-> 0]]
    /\ nLines = 0
    /\ nCalls = 0
    /\ bc = NoBroadcast
    /\ connections = [u \in Users |-> NoBucket]
    /\ cas = [c \in ConnIds |-> NoConn]
    /\ nextConn = 1
    /\ cast = NoCast
    /\ ca = [pc |-> "select", active |-> 0, target |-> "none", out |-> "none",
             system_q |-> 0]
    /\ hd = NoHandler
    /\ pres = [open |-> TRUE, reqs |-> 0, inbox |-> 0, msgs |-> <<>>,
               active_session |-> FALSE]
    /\ sch = [c \in SChans |-> NoSession]
    /\ sa = [k \in Kinds |-> NoSessionActor]
    /\ nextSChan = 1
    /\ nReqs = 0
    /\ nEvents = 0
    /\ gp = NoProcess
    /\ game = "None"
    /\ gstdin = <<>>
    /\ requests = <<>>
    /\ responses = <<>>
    /\ term = [st |-> "none", tq |-> 0, tout |-> 0]
    /\ tp = "none"
    /\ wire = [a2c |-> 0, c2a |-> 0]
    /\ cact = [pc |-> "none", session |-> FALSE, registered |-> FALSE]
    /\ psess = [member |-> FALSE, q |-> 0]
    /\ nTyped = 0
    /\ nBroadcasts = 0
    /\ rps = [live |-> "None", rules |-> NoRules, state |-> DefaultSnapshot]
    /\ saved = NoSaved
    /\ answer = NoAnswer
    /\ nAdv = 0
    /\ now = 0
    /\ gactor = [st |-> "none", sent |-> <<>>]
    /\ shown = NoShown
    /\ parsed = NoParsed
    /\ bi = NoBichannel
    /\ bsent = [e \in Ends |-> <<>>]
    /\ bgot = [e \in Ends |-> <<>>]

SpecDriver == Init /\ [][DriverNext]_vars
\* The driver's task is scheduled: a write to a pipe and a read_line that
\* can return do return.
SpecDriverLive ==
    Init /\ [][DriverNext]_vars /\ WF_vars(Write) /\ WF_vars(Read)
SpecTx == Init /\ [][TxNext]_vars
SpecProposal == Init /\ [][ProposalNext]_vars
\* The idle timer of a waiting actor fires, and an actor that has left run()
\* is dropped.
SpecProposalLive ==
    /\ Init
    /\ [][ProposalNext]_vars
    /\ \A g \in Gens :
          WF_vars(ActorIdle(g)) /\ WF_vars(ActorDrop(g)) /\ WF_vars(ActorDropFields(g))
\* Every send_timeout of a broadcast resolves: with the message accepted,
\* with the receiver closed, or at its 500 ms timer.
\* Every send_timeout of the ProposalActor resolves: with the message
\* accepted, with the receiver closed, or at USER_TIMEOUT.
SpecBroadcast ==
    Init /\ [][ProposalNext]_vars /\ \A g \in Gens : WF_vars(SendToUser(g))
SpecRegistry ==
    Init /\ [][RegistryNext]_vars /\ WF_vars(\E c \in ConnIds : BroadcastResolve(c))
SpecConn == Init /\ [][ConnNext]_vars
\* The ConnectionActor with one proposal session, its presentation sending
\* Enter, SessionCommand and Exit only, with enough of them and of the other
\* members' messages to fill the inboxes of the session's bichannel.  The
\* tasks of the two actors are scheduled: a step the ProposalActor can take
\* is taken, and a send of the ConnectionActor that can end does end.
ForwardNext ==
    \/ PresRequestWithin(MaxCmds)
    \/ PresRecv
    \/ PresClose
    \/ CaRecvSession
    \/ \E intent \in {"EnterGameProposal", "SessionCommand", "Exit"} :
          CaRecvPresentation(intent, TRUE)
    \/ CaEnterSend
    \/ CaPresent
    \/ CaForward
    \/ CaReturn
    \/ SaRecvEnter("GameProposal")
    \/ SaRecvConnection("GameProposal")
    \/ SaEventWithin("GameProposal", MaxCasts)
SpecForward ==
    /\ Init
    /\ [][ForwardNext]_vars
    /\ WF_vars(SaRecvEnter("GameProposal"))
    /\ WF_vars(SaRecvConnection("GameProposal"))
    /\ WF_vars(CaForward)
SpecProcess == Init /\ [][ProcessNext]_vars
\* The tasks of the actors are scheduled: a step an actor can take is taken.
\* The loop of the ConnectionActor or that of the ProposalActor: a
\* behaviour is one of SpecConn or one of SpecProposal.
SelectNext ==
    \/ /\ nCalls = 0
       /\ ConnNext
    \/ /\ nReqs = 0 /\ pres.open /\ ca.pc = "select" /\ ca.system_q = 0
       /\ ProposalNext
SpecSelect == Init /\ [][SelectNext]_vars
SpecChain ==
    /\ Init
    /\ [][ChainNext]_vars
    /\ WF_vars(TpRecvConnection)
    /\ WF_vars(TpRecvTerminal)
    /\ WF_vars(TpSendTerminal)
    /\ WF_vars(TpSendConnection)
    /\ WF_vars(ChainRecvSession)
    /\ WF_vars(\E kind \in {"Enter", "Answered", "Silent", "Fatal"} :
                   ChainRecvPresentation(kind))
    /\ WF_vars(ChainSendPresentation)
    /\ WF_vars(ProposalObserve)
SpecGame == Init /\ [][GameNext]_vars
SpecIds == Init /\ [][IdsNext]_vars
SpecBichannel == Init /\ [][BichannelNext]_vars

(***************************************************************************)
(* C1: every operation of GameInstanceProcess (and the Initialize of       *)
(* launch) writes exactly one request line and then consumes exactly one   *)
(* response line before it returns.  This is the statement as the spec     *)
(* makes it; it fails when the child has gone.                             *)
(***************************************************************************)
C1_OneRequestOneResponsePerOperation ==
    last.req # "none" => last.writes = 1 /\ last.reads = 1

(***************************************************************************)
(* C1, amended: an operation writes at most one request line, calls        *)
(* read_line only after its request is written and then exactly once, and  *)
(* returns only after that; it returns success only if it consumed one     *)
(* response line whose discriminator is the request's.  At most one        *)
(* request is outstanding, and none is written twice.                      *)
(***************************************************************************)
C1_RequestResponsePairing ==
    /\ op.writes <= 1 /\ op.readCalls <= op.writes /\ op.reads <= op.readCalls
    /\ drv.pc = "read" <=> (op.writes = 1 /\ op.readCalls = 0)
    /\ last.writes <= 1 /\ last.reads <= last.readCalls
    /\ last.req # "none" => last.readCalls = last.writes
    /\ last.result \in {"ok", "unsupported"} =>
          /\ last.writes = 1 /\ last.reads = 1
          /\ last.resp.tag = last.req
    /\ last.result = "ok" /\ last.req \in OptionTags => last.resp.some

\* An operation other than Initialize has returned success on a matching
\* response, and another one has failed on a response of another kind.
C1_Witness ==
    /\ last.result = "ok"
    /\ last.req = "Advance"
    /\ last.resp.tag = "Advance"
    /\ nOps = 2

(***************************************************************************)
(* C4: a hook registered with on_commit runs exactly once if commit()      *)
(* succeeds; when the inner commit fails or the Transaction is dropped     *)
(* without commit no hook runs, so no NewMessage notification is ever sent *)
(* for a message row that is not durable.                                  *)
(***************************************************************************)
C4_HooksRunIffCommitted ==
    /\ \A i \in 1..Len(hooks) : ran[i] <= 1
    /\ tx.phase = "committed" => \A i \in 1..Len(hooks) : ran[i] = 1
    /\ tx.phase \in {"open", "failed", "rolled_back"} =>
          \A i \in 1..Len(hooks) : ran[i] = 0
    /\ \A m \in 1..MaxMsgs : notified[m] <= 1
    /\ \A m \in 1..MaxMsgs : notified[m] = 1 => m \in durable

\* A transaction with a notification hook has committed and the hook has
\* run, after an earlier transaction with a hook failed to commit or was
\* rolled back and its message was never notified.
C4_Witness ==
    /\ tx.phase = "committed"
    /\ Len(hooks) >= 1
    /\ notified[2] = 1
    /\ 1 \notin durable
    /\ notified[1] = 0

(***************************************************************************)
(* C2: at most one ProposalActor exists for a proposal id at any instant   *)
(* (an actor exists until its Drop has removed the registry entry): the    *)
(* registry entry, when present, is the one actor's, every existing actor  *)
(* is the registered one, senders that callers hold to different actors    *)
(* mean the older actor is past its Drop, and a further actor is spawned   *)
(* only after the one before it has removed its entry.                     *)
(***************************************************************************)
Exists(g) == pa[g].st \in {"select", "handling", "done", "stopping"}

C2_AtMostOneActorPerProposal ==
    /\ Cardinality({g \in Gens : Exists(g)}) <= 1
    /\ proposals # 0 => Exists(proposals)
    /\ \A g \in Gens : Exists(g) => proposals = g
    /\ \A g \in Gens : g + 1 \in Gens /\ pa[g + 1].st # "none" =>
          pa[g].st \in {"dropping", "dropped"}
    /\ \A u, v \in Users :
          cl[u].pc = "send" /\ cl[v].pc = "send" /\ cl[u].gen < cl[v].gen =>
             pa[cl[u].gen].st \in {"dropping", "dropped"}

\* Two callers are inside enter_session at once, one holding the sender of
\* an actor that has removed its entry, the other the sender of the actor
\* spawned after that.
C2_Witness ==
    /\ cl["A"].pc = "send" /\ cl["B"].pc = "send"
    /\ cl["A"].gen = 1 /\ cl["B"].gen = 2
    /\ pa[1].st = "dropping"
    /\ Exists(2)

(***************************************************************************)
(* C3: when N callers run enter_session for one proposal id, exactly one   *)
(* ProposalActor is spawned and it handles exactly N Enter messages; no    *)
(* Enter that was sent successfully is lost.  Stated for the states in     *)
(* which every user has called once, every call has returned success and   *)
(* no actor has work left.                                                 *)
(***************************************************************************)
Quiet ==
    \A g \in Gens :
        /\ pa[g].st \in {"none", "select", "dropped"}
        /\ pa[g].st = "select" => pa[g].system_q = <<>>

C3_EveryEnterHandledByOneActor ==
    /\ \A g \in Gens : pa[g].st \in {"dropping", "dropped"} => pa[g].system_q = <<>>
    /\ (nCalls = Cardinality(Users) /\ Quiet /\ \A u \in Users : cl[u].pc = "in") =>
          /\ nextGen = 2
          /\ pa[1].handled = nCalls

(***************************************************************************)
(* C6: when a handler of the ProposalActor has finished its broadcast,     *)
(* every member whose send failed (its inbox stayed full for USER_TIMEOUT, *)
(* or its endpoint was dropped) is evicted from connections, and every     *)
(* other member is still connected, was sent the broadcast message, and    *)
(* was sent UserExited of every evicted member.                            *)
(***************************************************************************)
C6_FullInboxEvictedOthersServed ==
    \A g \in Gens : pa[g].st = "done" =>
        /\ \A e \in bc.evicted : pa[g].connections[chans[e].user] = 0
        /\ \A c \in bc.members \ bc.evicted :
              /\ pa[g].connections[chans[c].user] = c
              /\ bc.msg \in bc.got[c]
              /\ \A e \in bc.evicted :
                    Msg("UserExited", chans[e].user) \in bc.got[c]

\* The broadcast of a terminal line is over: B, whose inbox is still full
\* and whose endpoint is still held, was evicted, and A was sent the line
\* and UserExited of B.
C6_Witness ==
    /\ pa[1].st = "done"
    /\ bc.msg = Msg("Line", "A")
    /\ \E e \in bc.evicted, c \in bc.members \ bc.evicted :
          /\ chans[e].user = "B" /\ chans[e].connOpen /\ chans[e].inbox = ChanCap
          /\ chans[c].user = "A"
          /\ bc.got[c] = {Msg("Line", "A"), Msg("UserExited", "B")}

(***************************************************************************)
(* C5: every open adds exactly one sender to the user's bucket and spawns  *)
(* exactly one ConnectionActor, so an actor that has not begun its Drop    *)
(* has its sender exactly once in its user's bucket; once the gc of its    *)
(* Drop has run, whichever way the actor ended, its sender is in no        *)
(* bucket; a closed sender is in a bucket only between the close and the   *)
(* gc of its actor's Drop; and no bucket is left empty.                    *)
(***************************************************************************)
Occ(vec, c) == Cardinality({i \in 1..Len(vec) : vec[i] = c})

C5_RegistryHoldsLiveSendersOnly ==
    /\ \A c \in ConnIds : \A u \in Users :
          /\ cas[c].user # u => Occ(connections[u].vec, c) = 0
          /\ cas[c].user = u =>
                /\ cas[c].st = "running" => Occ(connections[u].vec, c) = 1
                /\ cas[c].st = "closed" => Occ(connections[u].vec, c) <= 1
                /\ cas[c].st = "dropped" => Occ(connections[u].vec, c) = 0
    /\ \A u \in Users : \A i \in 1..Len(connections[u].vec) :
          cas[connections[u].vec[i]].closed =>
             cas[connections[u].vec[i]].st = "closed"
    /\ \A u \in Users : connections[u].present <=> connections[u].vec # <<>>

\* The Drop of the first actor is over; the second one, of the same user,
\* is still registered, alone in the bucket; the other user has no bucket.
C5_Witness ==
    /\ cas[1].st = "dropped"
    /\ cas[2].user = cas[1].user /\ cas[2].st = "running"
    /\ connections[cas[1].user] = [present |-> TRUE, vec |-> <<2>>]
    /\ \A u \in Users \ {cas[1].user} : connections[u] = NoBucket

(***************************************************************************)
(* C7: a broadcast that has returned attempted a send to every connection  *)
(* of the listed users that was registered when it was called, whatever    *)
(* the outcome of the other sends, and every broadcast returns, even when  *)
(* inboxes stay full.                                                      *)
(***************************************************************************)
C7_BroadcastAttemptsAllAndTerminates ==
    /\ [](cast.pc = "done" =>
             \A c \in cast.senders : cast.res[c] # "none")
    /\ (cast.pc = "sending" ~> cast.pc = "done")

\* A broadcast is over: one of its sends timed out at an inbox that is
\* still full, the other one was accepted.
C7_Witness ==
    /\ cast.pc = "done"
    /\ \E c, d \in cast.senders :
          /\ cast.res[c] = "timeout" /\ cas[c].sysq = ConnSystemCap
          /\ cast.res[d] = "ok"

(***************************************************************************)
(* C8: a slow consumer never stalls a producer: whenever the               *)
(* ConnectionActor is at a send to its presentation or to its session, the *)
(* send can end, with the message accepted or with the peer given up as    *)
(* disconnected.  (Stated for the connection actor; the sends of the       *)
(* proposal actor and of the registry are SendToUser and BroadcastResolve, *)
(* which end at their timeouts.)                                           *)
(***************************************************************************)
C8_SendsToSlowConsumersEnd ==
    /\ ca.pc = "present" => CanPresent
    /\ ca.pc = "forward" => CanForward

(***************************************************************************)
(* C9: the ConnectionActor holds at most one session endpoint, the one in  *)
(* active_session; and when it has handled an Exit intent with a session   *)
(* active, or the closing of its active session's channel, active_session  *)
(* is none and the message it sent to the presentation is ExitedSession.   *)
(***************************************************************************)
C9_OneActiveSessionExitRestoresNone ==
    /\ \A c \in SChans : sch[c].connOpen => ca.active = c
    /\ ca.active # 0 => sch[ca.active].connOpen
    /\ (/\ ca.pc = "done"
        /\ \/ hd.h = "Exit" /\ hd.had
           \/ hd.h = "SessionClosed") =>
          /\ ca.active = 0
          /\ hd.sent = "ExitedSession"

\* The proposal actor, still running, has evicted the connection whose
\* session inbox stayed full; the connection has handled the closing of
\* its session's channel and ExitedSession is in the presentation's inbox.
C9_Witness ==
    /\ ca.pc = "done"
    /\ hd.h = "SessionClosed"
    /\ hd.sent = "ExitedSession"
    /\ ca.active = 0
    /\ sa["GameProposal"].st = "running"
    /\ pres.open /\ pres.inbox > 0

(***************************************************************************)
(* C10: when the ConnectionActor has handled Enter(session_id) for a       *)
(* session record of its user, of kind game-proposal or game, its          *)
(* active_session holds the bichannel of that kind's manager, the session  *)
(* actor has received the Enter (or runs and has it in its inbox),         *)
(* EnteredSession was sent to the presentation, and the ConnectionActor is *)
(* still running: its run() did not end on the Enter.                      *)
(***************************************************************************)
C10_EnterEstablishesSession ==
    /\ (ca.pc = "done" /\ hd.h \in EnterIntents) =>
          /\ ca.active # 0
          /\ sch[ca.active].kind = KindOf(hd.h)
          /\ hd.sent = "EnteredSession"
          /\ \/ sch[ca.active].entered
             \/ /\ sa[KindOf(hd.h)].st = "running"
                /\ ca.active \in Fields(sa[KindOf(hd.h)])
    /\ ca.pc = "dead" => hd.h # "EnterSendFailed"

(***************************************************************************)
(* C11: a soft failure of a ConnectionActor handler (Enter with a session  *)
(* id that has no record of the user, Exit with no active session) is sent *)
(* to the presentation as Error, leaves active_session as it was and does  *)
(* not end the actor: run() never ends on such a handler.                  *)
(***************************************************************************)
SoftFailure == hd.h = "EnterInvalid" \/ (hd.h = "Exit" /\ ~hd.had)

C11_SoftFailureReportedActorGoesOn ==
    /\ [](/\ (ca.pc = "done" /\ SoftFailure) =>
                /\ hd.sent = "Error"
                /\ hd.had <=> ca.active # 0
          /\ ca.pc = "dead" => hd.h \notin {"EnterInvalid", "Exit"})
    /\ [][(hd'.h = "EnterInvalid" \/ (hd'.h = "Exit" /\ ~hd'.had) \/ SoftFailure) =>
             ca'.active = ca.active]_vars

\* Enter with an unknown session id was handled while a session was active:
\* Error was sent and the session is still active.
C11_Witness ==
    /\ ca.pc = "done"
    /\ hd.h = "EnterInvalid"
    /\ hd.sent = "Error"
    /\ hd.had
    /\ ca.active # 0

(***************************************************************************)
(* C12: a Withdraw intent is rejected: the ConnectionActor reports the     *)
(* rejection to the presentation as Error and keeps running, its active    *)
(* session unchanged: run() never ends on a Withdraw.                      *)
(***************************************************************************)
C12_WithdrawRejectedActorGoesOn ==
    /\ ca.pc = "dead" => hd.h # "Withdraw"
    /\ (ca.pc = "done" /\ hd.h = "Withdraw") =>
          /\ hd.sent = "Error"
          /\ hd.had <=> ca.active # 0

(***************************************************************************)
(* C13: when the response consumed by an operation parses and its          *)
(* discriminator differs from the request's, the operation returns an      *)
(* error and the subprocess is killed: once such an operation has          *)
(* returned, the subprocess has exited and the driver is in no further     *)
(* request.                                                                *)
(***************************************************************************)
Mismatched(rec) == Parses(rec.resp) /\ rec.resp.tag # rec.req

C13_MismatchKillsSubprocess ==
    (last.req # "none" /\ Mismatched(last)) =>
        /\ last.result = "err"
        /\ child = "exited"
        /\ drv.pc \notin {"write", "read"}

(***************************************************************************)
(* C14: with the subprocess gone and no line left on its output, an        *)
(* operation inside request() returns an error and never success; an       *)
(* operation that reaches its write after the exit returns an error        *)
(* whatever is left on the output, so every later operation fails; and an  *)
(* operation in request() with the subprocess gone does return.            *)
(***************************************************************************)
InRequest == drv.pc \in {"write", "read"}

LaunchSucceeded ==
    /\ last.req = "Initialize"
    /\ last.result = "ok"
    /\ last.writes = 1
    /\ last.resp.tag = "Initialize"

C15_InitializeFirstAndDecidesLaunch ==
    /\ [][op'.writes > op.writes =>
             /\ drv.req = "Initialize" <=> drv.launching
             /\ op.writes = 0
             /\ drv.launching => (nOps = 0 /\ last = NoLast)
             /\ (~drv.launching /\ nOps = 1) => LaunchSucceeded]_vars
    /\ [][(drv.launching /\ ~drv'.launching) =>
             /\ last'.req = "Initialize"
             /\ IF last'.resp.tag = "Initialize"
                   THEN drv'.pc = "idle" /\ last'.result = "ok" /\ child' = child
                   ELSE /\ drv'.pc = "launch_failed"
                        /\ last'.result = "err"
                        /\ child' = "exited"]_vars
    /\ []((drv.pc = "idle" /\ nOps = 0) => LaunchSucceeded)
    /\ [][drv.pc = "launch_failed" => drv'.pc = "launch_failed"]_vars

\* launch read a State response to its Initialize and failed.
C15_Witness ==
    /\ drv.pc = "launch_failed"
    /\ last.req = "Initialize"
    /\ last.writes = 1
    /\ last.resp.tag = "State"
    /\ last.result = "err"
    /\ child = "exited"

(***************************************************************************)
(* C16: main answers the requests in the order it reads them, with one     *)
(* response line per handled request, of the request's discriminator. It   *)
(* handles Initialize as its first request and only there. A line that     *)
(* does not parse, another request before Initialize, a second Initialize  *)
(* and a handler's error end main with no response written for that        *)
(* request, and main reads and writes nothing afterwards.                  *)
(***************************************************************************)
Unanswered == Len(requests) - Len(responses)

C16_MainAnswersInOrderInitializeFirst ==
    /\ [](/\ Unanswered = IF gp.st = "failed" THEN 1 ELSE 0
          /\ \A i \in 1..Len(responses) :
                /\ responses[i].tag = requests[i].tag
                /\ requests[i].tag = "Initialize" <=> i = 1
          /\ \A i \in 1..Len(requests) :
                (requests[i].tag = "Initialize") # (i = 1) =>
                    /\ gp.st = "failed"
                    /\ gp.cause \in {"parse", "unexpected"}
                    /\ i = Len(requests)
          /\ game = "Some" <=> Len(responses) >= 1
          /\ gp.cause # "none" <=> gp.st = "failed")
    /\ [][gp.st \in {"failed", "ok"} => UNCHANGED <<requests, responses>>]_vars

\* Two requests were answered and a second Initialize ended main.
C16_Witness ==
    /\ gp.st = "failed"
    /\ gp.cause = "unexpected"
    /\ Len(requests) = 3
    /\ requests[1].tag = "Initialize"
    /\ requests[3].tag = "Initialize"
    /\ Len(responses) = 2
    /\ responses[2].tag = "State"

(***************************************************************************)
(* C17: the driver's and the game process's wire schemas agree: main       *)
(* accepts every request the driver writes after an answered Initialize,   *)
(* and the driver accepts every response main writes to a request of the   *)
(* driver as the response of that request.                                 *)
(***************************************************************************)
C17_WireSchemasAgree ==
    /\ (/\ gp.st = "failed"
        /\ Len(requests) > 1
        /\ \A i \in 1..Len(requests) : requests[i] \in DriverRequests
        /\ requests[Len(requests)].tag # "Initialize") =>
            gp.cause \notin {"parse", "unexpected"}
    /\ \A i \in 1..Len(responses) :
          requests[i] \in DriverRequests =>
              ResponseMatches(requests[i].tag, AsDriverLine(responses[i]))

(***************************************************************************)
(* C18: commit() commits the inner transaction first and then runs the     *)
(* hooks one at a time in registration order: a hook runs only in the      *)
(* loop, after a successful inner commit (the rows it notifies about are   *)
(* durable), and the hooks that have run are the first ones registered.    *)
(* The first failure of a hook ends commit(): no later hook runs, what     *)
(* the earlier hooks did stays, and the inner transaction stays committed. *)
(***************************************************************************)
InCommit == tx.phase \in {"hooks", "hook_failed", "committed"}

C18_CommitThenHooksInOrder ==
    /\ [](InCommit =>
             \A i \in 1..Len(hooks) :
                /\ i < tx.idx => ran[i] = 1
                /\ i > tx.idx => ran[i] = 0
                /\ i = tx.idx => ran[i] = IF tx.phase = "hook_failed" THEN 1 ELSE 0
                /\ ran[i] = 1 => hooks[i].msgs \subseteq durable)
    /\ [][(ran' # ran /\ Len(ran') = Len(ran)) =>
             /\ tx.phase = "hooks"
             /\ ran' = [ran EXCEPT ![tx.idx] = 1]]_vars
    /\ [][(tx.phase = "hooks" /\ tx'.phase = "hook_failed") =>
             /\ durable' = durable
             /\ hooks' = hooks
             /\ \A m \in 1..MaxMsgs : notified'[m] >= notified[m]]_vars
    /\ [][(tx.phase = "hook_failed" /\ tx'.phase = "hook_failed") =>
             UNCHANGED <<ran, durable, notified>>]_vars
    /\ [][durable \subseteq durable']_vars

\* The first hook notified its message, the second failed: the message
\* stays notified and durable.
C18_Witness ==
    /\ tx.phase = "hook_failed"
    /\ Len(hooks) = 2
    /\ tx.idx = 2
    /\ ran = <<1, 1>>
    /\ hooks[1].kind = "notify"
    /\ \E m \in hooks[1].msgs : notified[m] = 1 /\ m \in durable

(***************************************************************************)
(* C19: once the terminal endpoint has dropped its channel, the            *)
(* TerminalPresentation stops, the ConnectionActor stops and its registry  *)
(* entry is garbage-collected, and the ProposalActor of the session the    *)
(* connection had entered removes the user: eventually none of them is     *)
(* left running or waiting.                                                *)
(***************************************************************************)
ChainEnded ==
    /\ tp = "stopped"
    /\ cact.pc = "stopped"
    /\ ~cact.registered
    /\ ~psess.member

C19_TerminalDropEndsTheChain == (term.st = "dropped") ~> ChainEnded

(***************************************************************************)
(* C20: a ProposalActor waiting with no member and no Enter in its inbox   *)
(* either receives a further Enter or terminates: it ends run(), removes   *)
(* the registry entry of its proposal id and is dropped. An actor past its *)
(* Drop is never the registered one, and an enter_session that finds the   *)
(* entry vacant spawns and registers an actor that did not exist before.   *)
(***************************************************************************)
Idle(g) ==
    /\ pa[g].st = "select"
    /\ Keys(pa[g].connections) = {}
    /\ pa[g].system_q = <<>>

C20_IdleActorTerminatesAndIsReplaced ==
    /\ \A g \in Gens :
          Idle(g) ~> \/ pa[g].st = "dropped"
                     \/ pa[g].st = "select" /\ pa[g].system_q # <<>>
    /\ [](\A g \in Gens : pa[g].st \in {"dropping", "dropped"} => proposals # g)
    /\ [][\A u \in Users :
             (cl[u].pc # "send" /\ cl'[u].pc = "send" /\ proposals = 0) =>
                 /\ pa[nextGen].st = "none"
                 /\ proposals' = nextGen
                 /\ pa'[nextGen].st = "select"
                 /\ cl'[u].gen = nextGen]_vars

\* The first actor served a member, was left alone, stopped at its idle
\* timer and is dropped; a later enter_session spawned the second.
C20_Witness ==
    /\ pa[1].st = "dropped"
    /\ pa[1].handled > 0
    /\ proposals = 2
    /\ pa[2].st = "select"
    /\ \E u \in Users : cl[u].pc = "send" /\ cl[u].gen = 2

\* The game is in progress and wall time has passed the deadline of the
\* player on turn, who has supplied no action.
DeadlineElapsed ==
    /\ rps.live = "Some"
    /\ state(Game).kind = "InProgress"
    /\ now > state(Game).deadline

(***************************************************************************)
(* C21: when the deadline of the player on turn has elapsed with no action *)
(* from that player, the game's session actor, once the session was        *)
(* entered, has sent the subprocess an Advance with the null action.       *)
(* GameActor::run returns at once and sends nothing: the statement fails.  *)
(***************************************************************************)
C21_NullAdvanceAtDeadline ==
    (gactor.st # "none" /\ DeadlineElapsed) =>
        \E i \in DOMAIN gactor.sent :
            gactor.sent[i].tag = "Advance" /\ gactor.sent[i].action = "None"

(***************************************************************************)
(* C22: interpret_console_command for a player other than the one on turn  *)
(* returns a UI update and no advance action and leaves the game as it     *)
(* was; and the game's session actor sends the subprocess no action of a   *)
(* player who is not on turn (it sends no request at all).                 *)
(***************************************************************************)
C22_OnlyThePlayerOnTurnAdvances ==
    /\ [][(/\ answer'.op = "interpret_console_command"
           /\ answer'.player # player_turn(Game))
          => /\ answer'.resp.advance = "None"
             /\ answer'.resp.update_ui # "None"
             /\ rps' = rps]_vars
    /\ [](\A i \in DOMAIN gactor.sent : gactor.sent[i].tag # "Advance")

\* Player 1 has typed a valid command while player 0 is on turn.
C22_Witness ==
    /\ answer.op = "interpret_console_command"
    /\ answer.player = 1
    /\ answer.command = "R"
    /\ player_turn(Game) = 0
    /\ answer.resp.update_ui = "It's not your turn yet!"
    /\ answer.resp.advance = "None"

\* The rule of the game: what a player who played a gains against b.
Beats(a, b) ==
    <<a, b>> \in {<<"Rock", "Scissors">>, <<"Scissors", "Paper">>,
                  <<"Paper", "Rock">>}
Gain(a, b) == IF a = b THEN 1 ELSE IF Beats(a, b) THEN 3 ELSE 0

(***************************************************************************)
(* C23: an Advance that brings player 1's action while player 0's is       *)
(* pending adds to each score what the rock-paper-scissors rule gives (3   *)
(* to the winner, 0 to the loser, 1 to each in a draw) and counts one      *)
(* round; and with num_rounds = 1, rock from player 0 and then paper from  *)
(* player 1, state() answers Complete with the scores 0 and 3.             *)
(***************************************************************************)
C23_RoundsScoredByTheRule ==
    /\ [][(/\ nAdv' = nAdv + 1
           /\ rps.state.player0_action # "None"
           /\ answer'.action # "None")
          => /\ rps'.state.player0_score =
                  rps.state.player0_score
                    + Gain(rps.state.player0_action, answer'.action)
             /\ rps'.state.player1_score =
                  rps.state.player1_score
                    + Gain(answer'.action, rps.state.player0_action)
             /\ rps'.state.rounds_played = rps.state.rounds_played + 1
             /\ rps'.state.player0_action = "None"]_vars
    /\ [][(/\ nAdv' = nAdv + 1
           /\ rps.rules.num_rounds = 1
           /\ rps.state = [DefaultSnapshot EXCEPT
                             !.player0_action = "Rock",
                             !.last_action = rps.state.last_action]
           /\ answer'.action = "Paper")
          => /\ state(Game)' = [Unit EXCEPT !.kind = "Complete",
                                            !.player_results = <<0, 3>>]
            ]_vars
    /\ []((answer.op = "state" /\ state(Game).kind = "Complete")
            => answer.resp = state(Game))

\* Rock, then paper, in a game of one round, and the State request answered.
C23_Witness ==
    /\ rps.rules.num_rounds = 1
    /\ nAdv = 2
    /\ rps.state.player0_prompt = Prompt("You played", "rock", "lost", "paper")
    /\ rps.state.player1_prompt = Prompt("You played", "paper", "won", "rock")
    /\ answer.op = "state"
    /\ answer.resp.kind = "Complete"
    /\ answer.resp.player_results = <<0, 3>>

\* The State request of a game in progress was answered with the deadline
\* and the player on turn.
DeadlineReported ==
    (answer.op = "state" /\ state(Game).kind = "InProgress") =>
        /\ answer.resp.kind = "InProgress"
        /\ answer.resp.deadline =
             rps.state.last_action + rps.rules.turn_timeout
        /\ answer.resp.player_turn = 1 <=> rps.state.player0_action # "None"

\* An Advance leaves its tick as the tick of the last action, and one with
\* the null action gives the round to the player who is not on turn.
ForfeitScored ==
    /\ [][nAdv' = nAdv + 1 => rps'.state.last_action = answer'.tick]_vars
    /\ [][(nAdv' = nAdv + 1 /\ answer'.action = "None")
          => /\ rps'.state.rounds_played = rps.state.rounds_played + 1
             /\ rps'.state.player0_score =
                  rps.state.player0_score
                    + (IF player_turn(Game) = 1 THEN 3 ELSE 0)
             /\ rps'.state.player1_score =
                  rps.state.player1_score
                    + (IF player_turn(Game) = 0 THEN 3 ELSE 0)]_vars
    /\ [][(/\ nAdv' = nAdv + 1
           /\ answer'.action = "None"
           /\ rps.rules.num_rounds = 1
           /\ rps.state.rounds_played = 0
           /\ rps.state.player0_score = 0
           /\ player_turn(Game) = 1)
          => /\ state(Game)'.kind = "Complete"
             /\ state(Game)'.player_results[1] = 3]_vars

(***************************************************************************)
(* C24: while the game is in progress state() reports the deadline as the  *)
(* tick of the last Advance plus turn_timeout, and player_turn = 1 exactly *)
(* when player 0's action is pending; an Advance with the null action      *)
(* gives 3 to the player who is not on turn, nothing to the one who is,    *)
(* and counts the round, so that with num_rounds = 1 a null action on      *)
(* player 1's turn completes the game with player 0 at 3.  The deadline is *)
(* an i64 sum: it fails when the sum does not fit.                         *)
(***************************************************************************)
C24_DeadlineTurnAndForfeit == []DeadlineReported /\ ForfeitScored

(***************************************************************************)
(* C25: the snapshot that save_snapshot returns for the state of a game,   *)
(* as the line of the response carries it, is read back by LoadSnapshot as *)
(* that very state: scores, rounds played, pending action of player 0,     *)
(* tick of the last action and prompts; a load that follows the save       *)
(* leaves the game as it was, and no load touches the rules, so state()    *)
(* and every later Advance go as they would have.                          *)
(***************************************************************************)
C25_LoadOfSaveIsIdentity ==
    /\ [](rps.live = "Some" =>
            Deserialize(Serialize(rps.state)) = <<rps.state>>)
    /\ [](saved # NoSaved =>
            /\ Deserialize(saved[1]) # <<>>
            /\ Serialize(Deserialize(saved[1])[1]) = saved[1])
    /\ [][(answer.op = "save_snapshot" /\ answer'.op = "load_snapshot")
          => rps' = rps /\ state(Game)' = state(Game)]_vars
    /\ [][answer'.op = "load_snapshot"
          => /\ rps'.rules = rps.rules
             /\ rps'.state = Deserialize(saved[1])[1]]_vars

\* A snapshot with a pending action and a played round was saved, the game
\* went on, and the snapshot was loaded.
C25_Witness ==
    /\ answer.op = "load_snapshot"
    /\ nAdv = 2
    /\ saved # NoSaved
    /\ rps.state = Deserialize(saved[1])[1]
    /\ rps.state.player0_action = "Paper"
    /\ rps.state.rounds_played = 0
    /\ rps.state.last_action = TickMax

(***************************************************************************)
(* C26: for each typed id and every i64, parsing the text the id is        *)
(* formatted as gives the same id; and parsing, as an id of one type, a    *)
(* text that begins with the prefix of another id type fails.              *)
(***************************************************************************)
C26_IdTextRoundTrip ==
    /\ \A ty \in IdTypes, n \in IdMin..IdMax :
          from_str(ty, fmt(ty, n)) = [ok |-> TRUE, n |-> n]
    /\ (parsed.ty # "none" /\ shown.ty = parsed.ty) =>
          parsed.ok /\ parsed.n = shown.n
    /\ (/\ parsed.ty # "none"
        /\ shown.text # <<>>
        /\ \E ty \in IdTypes \ {parsed.ty} : Head(shown.text) = Prefix[ty])
       => ~parsed.ok

\* The least UserId was formatted and parsed back.
C26_Witness ==
    /\ shown.ty = "UserId"
    /\ shown.n = IdMin
    /\ shown.text = fmt("UserId", IdMin)
    /\ Len(shown.text) > 2
    /\ parsed = [ty |-> "UserId", ok |-> TRUE, n |-> IdMin]

\* The messages an endpoint has received, and one sequence beginning another.
Received(e) == SelectSeq(bgot[e], LAMBDA m : m.from # "none")
IsPrefix(a, b) == Len(a) <= Len(b) /\ SubSeq(b, 1, Len(a)) = a

(***************************************************************************)
(* C27: what an endpoint of a bichannel receives is, in order and without  *)
(* gaps, what the other endpoint sent; neither direction buffers more than *)
(* the capacity; and a receive yields none only when the peer's send half  *)
(* has been dropped and everything the peer sent has been received, after  *)
(* which it yields nothing else.                                           *)
(***************************************************************************)
C27_BichannelCrossWiredFifoBounded ==
    /\ \A c \in 1..2 : Len(bi.buf[c]) <= bi.cap
    /\ \A e \in Ends :
          /\ IsPrefix(Received(e), bsent[Peer(e)])
          /\ \A i \in DOMAIN bgot[e] :
                bgot[e][i].from = "none" =>
                    /\ ~bi.s[Peer(e)]
                    /\ Received(e) = bsent[Peer(e)]
                    /\ \A j \in i..Len(bgot[e]) : bgot[e][j].from = "none"

\* Through a bichannel of capacity 1, B has received three messages of A
\* and then none, and A one message of B.
C27_Witness ==
    /\ bi.cap = 1
    /\ Len(Received("B")) = 3
    /\ Len(bgot["B"]) = 4
    /\ bgot["B"][4].from = "none"
    /\ Len(Received("A")) = 1

\* The actor is handling an Enter: the connection that entered waits to be
\* inserted.
Entering(g) == pa[g].pend.chan # 0

MemberChans(rec) == {rec.connections[u] : u \in Keys(rec.connections)}

C30_IdleTimerOnlyWithoutMembers ==
    /\ [][\A g \in Gens :
            (pa[g].st = "select" /\ pa'[g].st = "stopping") =>
                Keys(pa[g].connections) = {}]_vars
    /\ [](\A g \in Gens :
            pa[g].st = "stopping" => Keys(pa[g].connections) = {})

\* An actor that has handled two Enters has stopped at its idle timer,
\* after its members had left.
C30_Witness ==
    \E g \in Gens :
        /\ pa[g].st = "stopping"
        /\ pa[g].handled = 2
        /\ Keys(pa[g].connections) = {}

\* The ProposalActor in run()'s select takes a step out of it.
LeavesSelect(g) == pa[g].st = "select" /\ pa'[g].st # "select"

(***************************************************************************)
(* C31: the ConnectionActor handles a system notification that is ready    *)
(* before a session message and a session message that is ready before a   *)
(* message of the presentation; the ProposalActor handles an Enter that is *)
(* ready before anything of a connection, and its idle timer ends it only  *)
(* when no Enter is ready and it has no connection to read from.           *)
(***************************************************************************)
C31_BiasedSelectOrder ==
    /\ [][(ca.pc = "select" /\ ca'.pc # "select") =>
            /\ ca.system_q > 0 => hd'.h = "NewMessage"
            /\ hd'.h \in {"SessionMsg", "SessionClosed"} =>
                  /\ ca.system_q = 0
                  /\ ca.active # 0
                  /\ sch[ca.active].inbox > 0 \/ ~sch[ca.active].actorOpen
            /\ hd'.h \notin {"NewMessage", "SessionMsg", "SessionClosed"} =>
                  /\ ca.system_q = 0
                  /\ ca.active # 0 =>
                        sch[ca.active].inbox = 0 /\ sch[ca.active].actorOpen
                  /\ pres.reqs > 0 \/ ~pres.open]_vars
    /\ [][\A g \in Gens :
            LeavesSelect(g) =>
                /\ pa[g].system_q # <<>> =>
                      /\ pa'[g].system_q = Tail(pa[g].system_q)
                      /\ bc'.msg = Msg("UserEntered", Head(pa[g].system_q).user)
                /\ pa[g].system_q = <<>> =>
                      \/ bc'.msg.t \in {"Line", "UserExited"}
                      \/ /\ pa'[g].st = "stopping"
                         /\ Keys(pa[g].connections) = {}]_vars

\* The ConnectionActor has handled a system notification with an intent of
\* the presentation waiting; or the ProposalActor handles an Enter with a
\* line of a member waiting.
C31_Witness ==
    \/ hd.h = "NewMessage" /\ pres.reqs > 0
    \/ \E g \in Gens, u \in Users :
          /\ Entering(g)
          /\ pa[g].connections[u] # 0
          /\ chans[pa[g].connections[u]].cmds > 0

\* The TerminalPresentation waits in send_to_connection on the full inbox
\* of the ConnectionActor; the ConnectionActor waits in
\* send_to_presentation on the full inbox of the TerminalPresentation.
AdapterBlocked == tp = "send_conn" /\ cact.pc # "stopped" /\ wire.a2c = PresCap
ConnectionBlocked ==
    cact.pc = "send_pres" /\ tp # "stopped" /\ wire.c2a = PresCap

(***************************************************************************)
(* C32: a ConnectionActor and its TerminalPresentation are never both      *)
(* waiting, each in a send to the other's full inbox.  Both sends are      *)
(* without a timeout and each actor is the only reader of the inbox the    *)
(* other waits on: the statement fails.                                    *)
(***************************************************************************)
C32_NeverBothBlocked == ~(AdapterBlocked /\ ConnectionBlocked)

\* C33: a ConnectionActor that waits in the send of a SessionCommand to the
\* full inbox of its active proposal session gets out of the send with the
\* handler returning normally: the ProposalActor takes a command, or its
\* own send to the connection's full inbox times out and it drops the
\* connection, so that the waiting send fails and the failure is ignored.
ForwardBlocked ==
    /\ ca.pc = "forward"
    /\ sch[ca.active].kind = "GameProposal"
    /\ ~CanForward
C33_BlockedForwardIsReleased == ForwardBlocked ~> (ca.pc = "done")
C33_Witness == ForwardBlocked /\ sch[ca.active].inbox = ChanCap

\* C34: the members of a session that receive the same two messages receive
\* them in the same relative order; and when a member is evicted during the
\* broadcast of a message M, no connection receives the UserExited of the
\* evicted member before M.
Before(log, m1, m2) ==
    \E i, j \in 1..Len(log) : i < j /\ log[i] = m1 /\ log[j] = m2
SameRelativeOrder ==
    \A c1, c2 \in Chans :
       \A i, j \in 1..Len(bc.log[c1]) :
          i < j => ~Before(bc.log[c2], bc.log[c1][j], bc.log[c1][i])
ExitedAfterMessage ==
    \A c \in Chans, u \in Users :
       Msg("UserExited", u) # bc.msg =>
          ~Before(bc.log[c], Msg("UserExited", u), bc.msg)
C34_BroadcastsKeepOneOrder == SameRelativeOrder /\ ExitedAfterMessage

\* C35: a ProposalActor holds at most one connection per user: a channel
\* whose actor endpoint is alive is the user's entry of the map, or is in an
\* Enter not handled yet; and while Enter{u} is handled for a user who is
\* already a member, the connection u had is not removed by timeout_user, so
\* that no UserExited{u} is broadcast for it.
HeldBy(g, c) ==
    /\ pa[g].st \notin {"none", "dropped"}
    /\ \/ pa[g].connections[chans[c].user] = c
       \/ pa[g].pend.chan = c
       \/ \E i \in 1..Len(pa[g].system_q) : pa[g].system_q[i].chan = c
OneConnectionPerUser ==
    \A c \in Chans :
       (chans[c].user # "none" /\ chans[c].actorOpen) => \E g \in Gens : HeldBy(g, c)
NoExitForReplaced ==
    \A g \in Gens :
       pa[g].pend.chan # 0 =>
          \A c \in bc.evicted : chans[c].user # pa[g].pend.user
C35_EnterReplacesWithoutExit == OneConnectionPerUser /\ NoExitForReplaced

\* C36: a broadcast of the ProposalActor ends.  A user whose send failed is
\* out of the map when the broadcast of its UserExited starts, the
\* broadcasts nested in one another are at most one more than the members
\* at the start, and nothing is put into the inbox of a connection that was
\* removed.
NestingBounded ==
    \A g \in Gens : Len(pa[g].stack) <= 1 + Cardinality(bc.members)
RemovedBeforeNested ==
    \A g \in Gens : \A i \in 2..Len(pa[g].stack) :
       LET f == pa[g].stack[i]
       IN  /\ f.msg.t = "UserExited"
           /\ pa[g].connections[f.msg.u] = 0
           /\ \A k \in 1..Len(f.todo) : f.todo[k] # f.msg.u
NoSendAfterRemoval ==
    \A c \in bc.evicted : bc'.log[c] = bc.log[c] \/ bc'.log[c] = <<>>
C36_BroadcastEnds ==
    /\ [](NestingBounded /\ RemovedBeforeNested)
    /\ [][NoSendAfterRemoval]_vars
    /\ \A g \in Gens : (pa[g].st = "handling") ~> (pa[g].st = "done")
C36_Witness ==
    \E g \in Gens :
       /\ pa[g].st = "handling"
       /\ Len(pa[g].stack) = 2
       /\ bc.evicted # {}

\* C37: the ConnectionActor that takes a NewMessage from its system inbox
\* goes on running and keeps its active session.
C37_NewMessageKeepsActor ==
    [][ca'.system_q < ca.system_q =>
          ca'.pc # "dead" /\ ca'.active = ca.active]_vars

\* C38: whenever no message is on its way between the presentation and the
\* ConnectionActor and no handler is running, the presentation has an
\* active session exactly when the ConnectionActor has one.
Quiescent ==
    /\ pres.open
    /\ ca.pc = "select"
    /\ pres.inbox = 0
    /\ pres.reqs = 0
C38_ViewsOfTheSessionAgree ==
    Quiescent => (pres.active_session <=> ca.active # 0)
C38_Witness ==
    /\ Quiescent
    /\ ~pres.active_session
    /\ nextSChan > 1
    /\ hd.h = "none"

\* C39: rounds_played never exceeds num_rounds, and once state() has
\* answered Complete an Advance leaves state() at Complete with the same
\* player_results.
RoundsWithinRules ==
    rps.live = "Some" => rps.state.rounds_played <= rps.rules.num_rounds
CompleteStays ==
    (/\ answer.op = "state"
     /\ answer.resp.kind = "Complete"
     /\ nAdv' > nAdv)
    => /\ state(Game)'.kind = "Complete"
       /\ state(Game)'.player_results = answer.resp.player_results
C39_CompleteIsFinal == []RoundsWithinRules /\ [][CompleteStays]_vars

\* C40: for a game in progress the launcher's render_console_ui of player 0
\* or 1 is a console prompt, not the error UnsupportedPresentationMode.
C40_InProgressGameRendersAPrompt ==
    (/\ answer.op = "render_console_ui"
     /\ rps.live = "Some"
     /\ state(Game).kind = "InProgress")
    => process_render_console_ui(answer.resp) = "Ok"

=============================================================================
